---- MODULE Spec2Model ----
(***************************************************************************)
(* Session and transaction-approval subsystem of the Algo-Intent Telegram  *)
(* bot: src/telegram_bot.py (handlers, sessions file, per-user             *)
(* conversation memory), src/wallet.py (the module-level WalletManager and *)
(* its wallet files) and src/transaction_builder.py (staging of unsigned   *)
(* transactions).                                                          *)
(*                                                                         *)
(* One step of the model is one inbound Telegram update handled to         *)
(* completion (the dispatcher runs handlers one at a time), or the clock   *)
(* advancing.  The intent parser, the ledger client and IPFS are external: *)
(* their answers are inputs drawn nondeterministically.                    *)
(***************************************************************************)
EXTENDS Integers, Sequences, FiniteSets, TLC

\* ---------------------------------------------------------------- constants
MAX_PASSWORD_ATTEMPTS == 3
SESSION_TIMEOUT_HOURS == 24
MAX_TRANSACTIONS_PER_HOUR == 10

\* ------------------------------------------------------------------- bounds
\* clock ticks per hour (timestamps are integers counting ticks)
HourTicks == 2
\* the clock advances tick by tick up to MaxTime
MaxTime == 2
\* number of key pairs in the world (created here or connected by mnemonic)
MaxWallets == 2
\* number of Telegram users
NumUsers == 2

Users == 1..NumUsers
Wallets == 1..MaxWallets
\* Passwords a user may type.  "pass1234" and "qwerty99" satisfy the strength
\* rule of wallet creation, "abc" does not.
Passwords == {"pass1234", "qwerty99", "abc"}
StrongPassword(p) == p \in {"pass1234", "qwerty99"}
\* A 25-word mnemonic is the mnemonic of key pair w (input w \in Wallets), or 25
\* words that are no valid mnemonic (input BadMnemonic).
BadMnemonic == MaxWallets + 1
MnemonicInputs == Wallets \cup {BadMnemonic}

VARIABLES
    sessions,           \* telegram_sessions.json: user -> session record
    user_data,          \* context.user_data of each user
    connected_address,  \* wallet_manager.connected_address (0: None)
    wallet_files,       \* wallets/<address>.json: address -> wallet data
    now,                \* datetime.now()
    reply,              \* the reply the last handled update ended with
    signedNow,          \* the signatures made while handling the last update
    resume,             \* what the last update did, if it was a password for a staged transaction
    rate_check,         \* the transaction rate check made while handling the last update
    wrong_streak,       \* history: each user's failed password verifications in a row
    request,            \* the transfer request the last update carried, if it was one
    files,              \* the sessions file, its temporary file and its backups, as written
    store,              \* the position of save_sessions and what the last load_sessions met
    held,               \* the sessions mapping each user's handler has loaded and not yet saved
    vault,              \* a blob made by _encrypt_data, and what _decrypt_data made of it
    balance_read        \* the balance reads of the opt-out branch of one resume

vars == <<sessions, user_data, connected_address, wallet_files, now,
          reply, signedNow, resume, rate_check, wrong_streak, request, files, store,
          held, vault, balance_read>>

\* ------------------------------------------------------------- SecretVault
\* salt = os.urandom(16): one of MaxSalts values
MaxSalts == 2
Salts == 1..MaxSalts
\* PBKDF2HMAC(SHA256, 32, salt, 100000).derive(password): a key that the
\* password and the salt determine, different for different pairs
Kdf(password, salt) == [pw |-> password, salt |-> salt]
\* Fernet(key).encrypt(data.encode()): a token that carries the data
\* encrypted and authenticated under the key
FernetEncrypt(key, data) == [key |-> key, data |-> data, intact |-> TRUE]
\* Fernet(key).decrypt(token) raises InvalidToken unless the token is as it
\* was made and the key is the one it was made with
FernetOK(key, token) == token.intact /\ token.key = key
\* base64.b64encode(salt + token).decode(): the text of the blob
B64Encode(salt, token) == [salt |-> salt, token |-> token, cut |-> FALSE, foreign |-> 0]
\* base64.b64decode(blob): it raises on a text that is cut short, and it
\* discards every character after the padding or outside the alphabet
B64DecodeOK(blob) == ~blob.cut
B64Decode(blob) == [salt |-> blob.salt, token |-> blob.token]
\* a split of the decoded bytes that takes the salt at the wrong place
SaltOf_WrongSplit(decoded) == (decoded.salt % MaxSalts) + 1
\* salt, encrypted_data = decoded[:16], decoded[16:]
SaltOf(decoded) == decoded.salt

\* _encrypt_data with the salt it drew
EncryptWithSalt(data, password, salt) ==
    B64Encode(salt, FernetEncrypt(Kdf(password, salt), data))
\* _encrypt_data as the handlers' specifications use it, where the salt drawn
\* is always the first
EncryptData(data, password) == EncryptWithSalt(data, password, 1)
\* _decrypt_data returns: nothing in its try block raises
DecryptOK(blob, password) ==
    /\ B64DecodeOK(blob)
    /\ FernetOK(Kdf(password, SaltOf(B64Decode(blob))), B64Decode(blob).token)
DecryptData(blob, password) == B64Decode(blob).token.data
\* _decrypt_data: what it returns, or the ValueError its one except clause
\* raises for every exception
DecryptError == "Incorrect password or corrupted data"
Decrypt(blob, password) ==
    IF DecryptOK(blob, password)
    THEN [ok |-> TRUE, value |-> <<DecryptData(blob, password)>>, error |-> ""]
    ELSE [ok |-> FALSE, value |-> <<>>, error |-> DecryptError]

\* vault: the secret and the password a blob was made of, the blob, how it
\* was damaged since, the password _decrypt_data was called with and its result
NoVault == [phase |-> "none", secret |-> 0, password |-> "", blob |-> <<>>,
            damage |-> "none", typed |-> "", result |-> <<>>]

\* balance_read: where the opt-out branch of handle_transaction_password
\* stands in its reads of the account (pc), the loop variable, the holding it
\* found, what each account_info call gave, the delays it took and how the
\* branch went on
NoBalanceRead == [pc |-> "idle", user |-> 0, attempt |-> 0, asset_holding |-> "none",
                  answers |-> <<>>, delays |-> 0, outcome |-> "none"]

\* mnemonic.to_private_key / account.address_from_private_key: key pair w has
\* mnemonic w, private key w and address w.
AddressOf(w) == w

\* ------------------------------------------------------------ user_data
EmptyData ==
    [state |-> "none", mnemonic |-> 0, pending_txn |-> <<>>, pending_txns |-> <<>>,
     transaction_type |-> "none", recipients |-> 0, failed_attempts |-> 0,
     nft_image |-> FALSE, nft_video |-> FALSE]

NoReply == [user |-> 0, tag |-> "none", remaining |-> 0]
Reply(u, tag) == [user |-> u, tag |-> tag, remaining |-> 0]
\* resume records the handling of a transaction password: who typed it, what
\* the conversation memory held (transaction type, failed_attempts, staged
\* payloads), the user's wrong_streak before it, whether the secret was
\* decrypted, whether decryption failed on the password (wrong), and whether
\* the signed payloads were handed to the ledger client, and in how many
\* send_transaction / send_transactions calls.
NoResume == [user |-> 0, decrypted |-> FALSE, wrong |-> FALSE, sent |-> FALSE,
             submissions |-> 0, type |-> "none", failed_attempts |-> 0, staged |-> <<>>, streak |-> 0]

\* rate_check records a call of check_user_rate_limit(user, "transaction") on
\* a stored session: the user, the time, the recorded timestamps it met and
\* its answer.
NoRateCheck == [user |-> 0, at |-> 0, before |-> <<>>, allowed |-> FALSE]

\* ---------------------------------------------------------------- amounts
\* int(amount * 1_000_000): microALGO per ALGO
MicroAlgosPerAlgo == 1000000
\* the largest amount, in ALGO, a transfer request may name
MaxAmount == 1000000
\* An amount of a request is a binary floating-point number of ALGO.  It is
\* modelled as a whole number of ALGO (algo, negative for a negative amount)
\* and a fraction counted in parts, MicroParts parts to the microALGO: a
\* request need not name a whole number of microALGO (10 ALGO over 3
\* recipients), and the float nearest to a decimal literal is generally none
\* (0.000249 * 1_000_000 = 248.99999999999997).
MicroParts == 2
PartsPerAlgo == MicroAlgosPerAlgo * MicroParts
Amount(algo, parts) == [algo |-> algo, parts |-> parts]
\* amount <= 0
NotPositive(a) == a.algo < 0 \/ (a.algo = 0 /\ a.parts = 0)
\* amount > 1000000
AboveMax(a) == a.algo > MaxAmount \/ (a.algo = MaxAmount /\ a.parts > 0)
\* A number of microALGO, kept as whole ALGO and the microALGO below one ALGO.
Micro(algo, micro) == [algo |-> algo, micro |-> micro]
\* amount_microalgos = int(amount * 1_000_000), of a positive amount
AmountMicroalgos(a) == Micro(a.algo, a.parts \div MicroParts)

RECURSIVE SumAlgo(_), SumParts(_), SumMicro(_)
SumAlgo(s) == IF s = <<>> THEN 0 ELSE Head(s).algo + SumAlgo(Tail(s))
SumParts(s) == IF s = <<>> THEN 0 ELSE Head(s).parts + SumParts(Tail(s))
SumMicro(s) == IF s = <<>> THEN 0 ELSE Head(s).micro + SumMicro(Tail(s))
\* total_amount = sum(r['amount'] for r in recipients)
TotalAmount(amounts) ==
    Amount(SumAlgo(amounts) + (SumParts(amounts) \div PartsPerAlgo),
           SumParts(amounts) % PartsPerAlgo)

\* ----------------------------------------------------------- transactions
\* request records a send_algo or send_algo_multi request: the user, the
\* intent, and the parameters (send: the params of send_algo, as a list of
\* one; recipients: the 'recipients' of send_algo_multi).
NoRequest == [user |-> 0, kind |-> "none", send |-> <<>>, recipients |-> <<>>]

\* An unsigned transaction object; signs counts the calls of txn.sign on it.
\* receiver is the position of the recipient in the request (0: none or the
\* sender), amt the amount in base units, group the group id (<<>>: None).
Txn(type, sender) ==
    [type |-> type, sender |-> sender, signs |-> 0,
     receiver |-> 0, amt |-> Micro(0, 0), group |-> <<>>]
PaymentTxn(sender, receiver, amt) ==
    [Txn("pay", sender) EXCEPT !.receiver = receiver, !.amt = amt]
\* AssetTransferTxn(sender, sp, receiver, amt=1, index=asset_id)
AssetTransferTxn(sender, receiver) ==
    [Txn("axfer", sender) EXCEPT !.receiver = receiver, !.amt = Micro(0, 1)]

\* calculate_group_id: a hash of the transactions of the group, taken with
\* their group field empty; the hash is collision-free, so it is identified
\* with what it hashes
GroupId(txns) == [i \in DOMAIN txns |-> [txns[i] EXCEPT !.group = <<>>]]
\* a grouping that gives every transaction a group id of its own
AssignGroupId_Separately(txns) ==
    [i \in DOMAIN txns |-> [txns[i] EXCEPT !.group = GroupId(<<txns[i]>>)]]
\* algosdk.transaction.assign_group_id(txns)
AssignGroupId(txns) ==
    [i \in DOMAIN txns |-> [txns[i] EXCEPT !.group = GroupId(txns)]]

\* -------------------------------------------------------------- sessions
HasSession(S, u) == u \in DOMAIN S
DelSession(S, u) == [v \in (DOMAIN S) \ {u} |-> S[v]]
PutSession(S, u, rec) == [v \in (DOMAIN S) \cup {u} |-> IF v = u THEN rec ELSE S[v]]

\* a record that takes its address from the wallet manager's active wallet
NewSession_ActiveWallet(address, blob, t) ==
    [address |-> IF connected_address = 0 THEN address ELSE connected_address,
     encrypted_mnemonic |-> blob, last_activity |-> t, recent_transactions |-> <<>>]

NewSession(address, blob, t) ==
    [address |-> address, encrypted_mnemonic |-> blob, last_activity |-> t,
     recent_transactions |-> <<>>]

SessionTimeout == SESSION_TIMEOUT_HOURS * HourTicks

\* a validation that expires a session already at the timeout
ValidateSession_AtTimeout(S, u, t) ==
    IF ~HasSession(S, u) THEN [ok |-> FALSE, sessions |-> S]
    ELSE IF t - S[u].last_activity >= SessionTimeout
         THEN [ok |-> FALSE, sessions |-> DelSession(S, u)]
         ELSE [ok |-> TRUE,
               sessions |-> [S EXCEPT ![u].last_activity = t]]

\* validate_session: [ok, sessions]
ValidateSession(S, u, t) ==
    IF ~HasSession(S, u) THEN [ok |-> FALSE, sessions |-> S]
    ELSE IF t - S[u].last_activity > SessionTimeout
         THEN [ok |-> FALSE, sessions |-> DelSession(S, u)]
         ELSE [ok |-> TRUE,
               sessions |-> [S EXCEPT ![u].last_activity = t]]

\* a list that is never pruned
Newer_KeepAll(list, t) == list

RECURSIVE Newer(_, _)
\* the entries of a list of timestamps that are newer than t, in order
Newer(list, t) ==
    IF list = <<>> THEN <<>>
    ELSE IF Head(list) > t THEN <<Head(list)>> \o Newer(Tail(list), t)
         ELSE Newer(Tail(list), t)

\* a rate check that lets one operation too many through
CheckUserRateLimit_OffByOne(S, u, t) ==
    IF ~HasSession(S, u) THEN [ok |-> TRUE, sessions |-> S]
    ELSE LET recent == Newer(S[u].recent_transactions, t - HourTicks)
         IN IF Len(recent) > MAX_TRANSACTIONS_PER_HOUR
            THEN [ok |-> FALSE, sessions |-> S]
            ELSE [ok |-> TRUE,
                  sessions |-> [S EXCEPT ![u].recent_transactions = Append(recent, t)]]

\* check_user_rate_limit(user_id, "transaction"): [ok, sessions]
CheckUserRateLimit(S, u, t) ==
    IF ~HasSession(S, u) THEN [ok |-> TRUE, sessions |-> S]
    ELSE LET recent == Newer(S[u].recent_transactions, t - HourTicks)
         IN IF Len(recent) >= MAX_TRANSACTIONS_PER_HOUR
            THEN [ok |-> FALSE, sessions |-> S]
            ELSE [ok |-> TRUE,
                  sessions |-> [S EXCEPT ![u].recent_transactions = Append(recent, t)]]

\* handlers that have loaded the sessions and not yet saved them: none
NoHeld == [u \in Users |-> <<>>]

\* ------------------------------------------------------- the sessions file
\* What a file holds.  kind "json": the first upto chunks of the text that
\* json.dump writes for the mapping `of`; kind "not_utf8": bytes that are no
\* UTF-8 text; kind "not_a_mapping": JSON text of a value that is no object
\* (null, a list).  A file is a list of one content, or <<>> when it does not
\* exist.
Written(M, k) == [kind |-> "json", of |-> M, upto |-> k]
Damaged(kind) == [kind |-> kind, of |-> <<>>, upto |-> 0]
\* the write calls json.dump makes for a mapping: one for each entry and one
\* for the closing brace
Chunks(M) == Cardinality(DOMAIN M) + 1
\* json.load parses the content
Complete(c) == c.kind = "json" /\ c.upto = Chunks(c.of)

\* files: the sessions file, the temporary file and, for each second, the
\* backup file named after it
NoFiles == [sessions_file |-> <<>>, temp_file |-> <<>>, backups |-> [t \in 0..MaxTime |-> <<>>]]
\* store: pc is the position of the running save_sessions ("idle": none),
\* arg the mapping it saves, prev the mapping the sessions file held when it
\* began; last names the last step; met, loaded and at are what the last
\* load_sessions found in the sessions file, what it answered and when.
NoLoad == [status |-> "none", value |-> <<>>]
NoStore == [pc |-> "idle", arg |-> <<>>, prev |-> <<>>, last |-> "none",
            met |-> <<>>, loaded |-> NoLoad, at |-> 0]

\* a save that writes into the sessions file itself
SaveTarget_InPlace == "sessions_file"
\* temp_file = f"{SESSIONS_FILE}.tmp": the file save_sessions writes into
SaveTarget == "temp_file"

\* load_sessions at time t with the files F: [status, value, files].  status
\* "mapping": it returns the mapping value; "other": json.load returned a value
\* that is no mapping and load_sessions returns it; "raise": an exception the
\* except clause does not name (UnicodeDecodeError) leaves load_sessions.
LoadSessions(F, t) ==
    IF F.sessions_file = <<>>
    THEN [status |-> "mapping", value |-> <<>>, files |-> F]
    ELSE LET c == F.sessions_file[1]
         IN IF Complete(c) THEN [status |-> "mapping", value |-> c.of, files |-> F]
            ELSE IF c.kind = "json"
            THEN [status |-> "mapping", value |-> <<>>,
                  files |-> [F EXCEPT !.sessions_file = <<>>, !.backups[t] = <<c>>]]
            ELSE IF c.kind = "not_a_mapping"
            THEN [status |-> "other", value |-> <<>>, files |-> F]
            ELSE [status |-> "raise", value |-> <<>>, files |-> F]

\* what the handlers leave alone while the store is stepped
HandlersIdle ==
    UNCHANGED <<sessions, user_data, connected_address, wallet_files,
                reply, signedNow, resume, rate_check, wrong_streak, request,
                held, vault, balance_read>>

\* save_sessions(M), line 197: open(temp_file, 'w') creates or empties the file
SaveOpen(M) ==
    /\ store.pc = "idle"
    /\ files' = [files EXCEPT ![SaveTarget] = <<Written(M, 0)>>]
    /\ store' = [store EXCEPT !.pc = "writing", !.arg = M, !.last = "save",
                               !.prev = LoadSessions(files, now).value]
    /\ HandlersIdle /\ UNCHANGED now

\* line 198: one write call of json.dump
SaveWrite ==
    /\ store.pc = "writing"
    /\ files[SaveTarget] # <<>>
    /\ files[SaveTarget][1].upto < Chunks(store.arg)
    /\ files' = [files EXCEPT ![SaveTarget] = <<Written(store.arg, @[1].upto + 1)>>]
    /\ store' = [store EXCEPT !.last = "save"]
    /\ HandlersIdle /\ UNCHANGED now

\* the end of the with block: the file is closed
SaveClose ==
    /\ store.pc = "writing"
    /\ files[SaveTarget] # <<>>
    /\ files[SaveTarget][1].upto = Chunks(store.arg)
    /\ store' = [store EXCEPT !.pc = "closed", !.last = "save"]
    /\ HandlersIdle /\ UNCHANGED <<now, files>>

\* line 201: os.replace(temp_file, SESSIONS_FILE)
SaveReplace ==
    /\ store.pc = "closed"
    /\ files' = [[files EXCEPT ![SaveTarget] = <<>>]
                    EXCEPT !.sessions_file = files[SaveTarget]]
    /\ store' = [store EXCEPT !.pc = "idle", !.last = "save"]
    /\ HandlersIdle /\ UNCHANGED now

\* lines 202-203: a write raises IOError; save_sessions logs it and returns
SaveIOError ==
    /\ store.pc = "writing"
    /\ store' = [store EXCEPT !.pc = "idle", !.last = "ioerror"]
    /\ HandlersIdle /\ UNCHANGED <<now, files>>

\* the process dies inside save_sessions and is started again: the files stay
\* as they are
Crash ==
    /\ store.pc # "idle"
    /\ store' = [store EXCEPT !.pc = "idle", !.last = "crash"]
    /\ HandlersIdle /\ UNCHANGED <<now, files>>

\* load_sessions(), by the bot or by any other reader of the file
Load ==
    /\ LET res == LoadSessions(files, now)
       IN /\ files' = res.files
          /\ store' = [store EXCEPT !.last = "load", !.met = files.sessions_file,
                                     !.loaded = [status |-> res.status, value |-> res.value],
                                     !.at = now]
    /\ HandlersIdle /\ UNCHANGED now

\* What can make the sessions file unreadable from outside the program: it is
\* cut short, overwritten with bytes that are no text, or replaced by JSON
\* text of another shape.
DamageKinds == {"truncated", "not_utf8", "not_a_mapping"}
Damage(kind) ==
    /\ store.pc = "idle"
    /\ files.sessions_file # <<>>
    /\ Complete(files.sessions_file[1])
    /\ files' = [files EXCEPT !.sessions_file =
                     IF kind = "truncated"
                     THEN <<Written(@[1].of, @[1].upto - 1)>>
                     ELSE <<Damaged(kind)>>]
    /\ store' = [store EXCEPT !.last = "damage"]
    /\ HandlersIdle /\ UNCHANGED now

\* ------------------------------------------------- the vault, step by step
VaultOnly ==
    UNCHANGED <<sessions, user_data, connected_address, wallet_files, now, reply,
                signedNow, resume, rate_check, wrong_streak, request, files, store,
                held, balance_read>>

\* _encrypt_data(data, password), drawing the salt
Encrypt(data, password, salt) ==
    /\ vault.phase = "none"
    /\ vault' = [NoVault EXCEPT !.phase = "sealed", !.secret = data,
                                !.password = password,
                                !.blob = <<EncryptWithSalt(data, password, salt)>>]
    /\ VaultOnly

\* What can happen to a stored blob: a character within its first 16 bytes
\* or within the token is changed, the text is cut short, or characters are
\* added at its end.
BlobDamages == {"salt", "token", "cut", "appended"}
DamagedBlob(blob, kind) ==
    CASE kind = "salt" -> [blob EXCEPT !.salt = (@ % MaxSalts) + 1]
      [] kind = "token" -> [blob EXCEPT !.token.intact = FALSE]
      [] kind = "cut" -> [blob EXCEPT !.cut = TRUE]
      [] OTHER -> [blob EXCEPT !.foreign = @ + 1]
DamageBlob(kind) ==
    /\ vault.phase = "sealed"
    /\ vault.damage = "none"
    /\ vault' = [vault EXCEPT !.damage = kind, !.blob = <<DamagedBlob(@[1], kind)>>]
    /\ VaultOnly

\* _decrypt_data(blob, password)
DecryptBlob(password) ==
    /\ vault.phase = "sealed"
    /\ vault' = [vault EXCEPT !.phase = "opened", !.typed = password,
                              !.result = <<Decrypt(vault.blob[1], password)>>]
    /\ VaultOnly

\* ------------------------------------------ the balance reads of an opt-out
\* handle_transaction_password, branch 'opt_out', lines 822-853, step by step:
\* for attempt in range(3), one account_info call and the search for the
\* asset among the holdings, then time.sleep(2) unless the holding was found
\* or the attempt was the last; after the loop the branch returns when no
\* holding was found or its amount is above zero, and signs otherwise.
ReadAttempts == 3
\* what one attempt gives: account_info raises, the account does not hold the
\* asset, or it holds it with amount zero or with some amount
ReadAnswers == {"raise", "absent", "zero", "positive"}
\* lines 829-835: the attempt found the holding
Found(answer) == answer \in {"zero", "positive"}

\* a loop that sleeps after every attempt that found nothing
SleepsAfter_EveryAttempt(attempt) == TRUE
\* lines 836-837 and 840-841: if attempt < 2
SleepsAfter(attempt) == attempt < 2

BalanceReadOnly ==
    UNCHANGED <<sessions, user_data, connected_address, wallet_files, now, reply,
                signedNow, resume, rate_check, wrong_streak, request, files, store,
                held, vault>>

\* the loop variable moves on: the next attempt, or the end of the loop
NextAttempt(b) ==
    [b EXCEPT !.attempt = @ + 1,
              !.pc = IF b.attempt + 1 < ReadAttempts THEN "read" ELSE "decide"]

\* line 824: the branch is entered for user u, who has an opt-out staged
BeginBalanceRead(u) ==
    /\ balance_read.pc \in {"idle", "done"}
    /\ user_data[u].state = "transaction_password"
    /\ user_data[u].transaction_type = "opt_out"
    /\ balance_read' = [NoBalanceRead EXCEPT !.pc = "read", !.user = u]
    /\ BalanceReadOnly

\* lines 828-841: one attempt
AccountInfo(answer) ==
    /\ balance_read.pc = "read"
    /\ LET b == [balance_read EXCEPT !.answers = Append(@, answer)]
       IN balance_read' =
              IF Found(answer) THEN [b EXCEPT !.asset_holding = answer, !.pc = "decide"]
              ELSE IF SleepsAfter(b.attempt) THEN [b EXCEPT !.pc = "sleep"]
              ELSE NextAttempt(b)
    /\ BalanceReadOnly

\* time.sleep(2)
TimeSleep ==
    /\ balance_read.pc = "sleep"
    /\ balance_read' = NextAttempt([balance_read EXCEPT !.delays = @ + 1])
    /\ BalanceReadOnly

\* lines 843-853: the branch after the loop
AfterLoop ==
    /\ balance_read.pc = "decide"
    /\ balance_read' =
          [balance_read EXCEPT
              !.pc = "done",
              !.outcome = IF balance_read.asset_holding = "none" THEN "not_opted_in"
                          ELSE IF balance_read.asset_holding = "positive" THEN "holds_units"
                          ELSE "sign"]
    /\ BalanceReadOnly

\* ------------------------------------------- load, change and save sections
\* The places that load the sessions file, change the record of one user and
\* save the file: validate_session (refresh or expiry), check_user_rate_limit,
\* handle_wallet_creation_password, handle_connection_password and
\* handle_disconnect.  A section is the mapping it loaded, its kind and, for a
\* creation or connection, the key pair.
SectionKinds == {"validate", "rate", "create", "connect", "disconnect"}
Section(kind, S, w) == [kind |-> kind, sessions |-> S, wallet |-> w]

\* whether the section of user u calls save_sessions at time t
Saves(h, u, t) ==
    CASE h.kind = "validate" -> HasSession(h.sessions, u)
      [] h.kind = "rate" -> HasSession(h.sessions, u) /\ CheckUserRateLimit(h.sessions, u, t).ok
      [] h.kind = "disconnect" -> HasSession(h.sessions, u)
      [] OTHER -> TRUE
\* the mapping it calls save_sessions with
Changed(h, u, t) ==
    CASE h.kind = "validate" -> ValidateSession(h.sessions, u, t).sessions
      [] h.kind = "rate" -> CheckUserRateLimit(h.sessions, u, t).sessions
      [] h.kind = "disconnect" -> DelSession(h.sessions, u)
      [] OTHER -> PutSession(h.sessions, u,
                             NewSession(AddressOf(h.wallet),
                                        EncryptData(h.wallet, "pass1234"), t))

\* sections with an await between the load and the save
Exclusive_AwaitInside == TRUE
\* No section awaits between load_sessions() and save_sessions(), and all
\* handlers run on one event loop: no section begins while another holds the
\* sessions it loaded.
Exclusive == \A v \in Users : held[v] = <<>>

SectionsOnly ==
    UNCHANGED <<user_data, connected_address, wallet_files, now, reply, signedNow,
                resume, rate_check, wrong_streak, request, files, store, vault,
                balance_read>>

\* sessions = load_sessions()
SectionLoad(u, kind, w) ==
    /\ Exclusive
    /\ held[u] = <<>>
    /\ held' = [held EXCEPT ![u] = <<Section(kind, sessions, w)>>]
    /\ UNCHANGED sessions
    /\ SectionsOnly

\* the change of the user's record and save_sessions(sessions)
SectionSave(u) ==
    /\ held[u] # <<>>
    /\ sessions' = IF Saves(held[u][1], u, now) THEN Changed(held[u][1], u, now)
                   ELSE sessions
    /\ held' = [held EXCEPT ![u] = <<>>]
    /\ SectionsOnly

\* ---------------------------------------------------------- WalletManager
\* password=None of sign_transaction
NoPassword == ""

\* a sign_transaction that signs whatever the password is
SignTransaction_AnyPassword(txn, password) ==
    IF connected_address = 0 \/ wallet_files[connected_address] = <<>>
    THEN [status |-> "raise", sig |-> <<>>]
    ELSE IF password = NoPassword THEN [status |-> "needs_approval", sig |-> <<>>]
    ELSE LET blob == wallet_files[connected_address][1].encrypted_mnemonic
         IN [status |-> "signed",
             sig |-> << [txn |-> txn, key |-> DecryptData(blob, password),
                         blob |-> blob, pw |-> password] >>]

\* WalletManager.sign_transaction(txn, password, frontend='telegram'):
\* [status, sig] with status "raise", "needs_approval" or "signed"; the
\* signature names the payload, the key that signed it, the blob that was
\* decrypted and the password that decrypted it.
SignTransaction(txn, password) ==
    LET raise == [status |-> "raise", sig |-> <<>>]
    IN IF connected_address = 0 THEN raise
       ELSE IF wallet_files[connected_address] = <<>> THEN raise
       ELSE IF password = NoPassword THEN [status |-> "needs_approval", sig |-> <<>>]
       ELSE LET blob == wallet_files[connected_address][1].encrypted_mnemonic
            IN IF ~DecryptOK(blob, password) THEN raise
               ELSE [status |-> "signed",
                     sig |-> << [txn |-> txn, key |-> DecryptData(blob, password),
                                 blob |-> blob, pw |-> password] >>]

Init ==
    /\ sessions = <<>>
    /\ user_data = [u \in Users |-> EmptyData]
    /\ connected_address = 0
    /\ wallet_files = [w \in Wallets |-> <<>>]
    /\ now = 0
    /\ reply = NoReply
    /\ signedNow = {}
    /\ resume = NoResume
    /\ rate_check = NoRateCheck
    /\ wrong_streak = [u \in Users |-> 0]
    /\ request = NoRequest
    /\ files = NoFiles
    /\ store = NoStore
    /\ held = NoHeld
    /\ vault = NoVault
    /\ balance_read = NoBalanceRead

\* The handlers load and save the sessions file within one step: what the
\* file holds is the variable sessions.  The single writes of save_sessions,
\* what load_sessions does with a file it cannot read, the load and the save
\* of a handler as two steps, and _encrypt_data and _decrypt_data on their
\* own, are the steps of SpecSave, SpecStore, SpecSessions and SpecVault,
\* which the handlers leave alone.
Aside == UNCHANGED <<files, store, held, vault, balance_read>>
\* an update that is no transaction password and makes no rate check
NoSigning == signedNow' = {} /\ resume' = NoResume /\ Aside
Quiet ==
    /\ NoSigning
    /\ rate_check' = NoRateCheck
    /\ request' = NoRequest
    /\ UNCHANGED wrong_streak
\* the same, ending the user's run of failed password verifications
QuietReset(u) ==
    /\ NoSigning
    /\ rate_check' = NoRateCheck
    /\ request' = NoRequest
    /\ wrong_streak' = [wrong_streak EXCEPT ![u] = 0]

\* a payload after txn.sign was called on it
Signed(txn) == [txn EXCEPT !.signs = @ + 1]

SetData(u, d) == user_data' = [user_data EXCEPT ![u] = d]
Say(u, tag) == reply' = Reply(u, tag)

\* a conversation memory that is not cleared
ClearedContext_Kept(d) == d

\* context.user_data.clear() at telegram_bot.py:809, after the pending data was
\* copied into locals: what the conversation memory holds from then on.
ClearedContext(d) == EmptyData

\* handle_conversation_state, lines 505-512: too many failed attempts
TooManyAttempts(u) == user_data[u].failed_attempts >= MAX_PASSWORD_ATTEMPTS
RefuseLockedOut(u) ==
    /\ SetData(u, EmptyData)
    /\ Say(u, "LockedOut")
    /\ UNCHANGED <<sessions, connected_address, wallet_files, now>>
    /\ Quiet

\* ------------------------------------------------- wallet creation / connect
\* account.generate_account(): a key pair nobody holds yet
FreshWallet == CHOOSE w \in Wallets : wallet_files[w] = <<>> /\
                   \A v \in Wallets : wallet_files[v] = <<>> => w <= v

\* WalletManager._save_wallet and the connected_address assignment
SaveAndConnect(w, blob) ==
    /\ wallet_files' = [wallet_files EXCEPT
                           ![AddressOf(w)] = << [address |-> AddressOf(w), encrypted_mnemonic |-> blob] >>]
    /\ connected_address' = AddressOf(w)

\* handle_message, intent create_wallet
StartCreateWallet(u) ==
    /\ user_data[u].state = "none"
    /\ SetData(u, [user_data[u] EXCEPT !.state = "creating_wallet"])
    /\ Say(u, "AskPassword")
    /\ UNCHANGED <<sessions, connected_address, wallet_files, now>>
    /\ Quiet

\* handle_message, intent connect_wallet
StartConnectWallet(u) ==
    /\ user_data[u].state = "none"
    /\ SetData(u, [user_data[u] EXCEPT !.state = "connecting_wallet"])
    /\ Say(u, "AskMnemonic")
    /\ UNCHANGED <<sessions, connected_address, wallet_files, now>>
    /\ Quiet

\* handle_wallet_creation_password with wallet.create_wallet
HandleWalletCreationPassword(u, password) ==
    /\ user_data[u].state = "creating_wallet"
    /\ IF TooManyAttempts(u) THEN RefuseLockedOut(u)
       ELSE IF ~StrongPassword(password)
       THEN /\ Say(u, "WeakPassword")
            /\ UNCHANGED <<sessions, user_data, connected_address, wallet_files, now>>
            /\ Quiet
       ELSE /\ \E w \in Wallets : wallet_files[w] = <<>>
            /\ LET w == FreshWallet
                   blob == EncryptData(w, password)
               IN /\ SaveAndConnect(w, blob)
                  /\ sessions' = PutSession(sessions, u, NewSession(AddressOf(w), blob, now))
            /\ SetData(u, EmptyData)
            /\ Say(u, "WalletCreated")
            /\ UNCHANGED now
            /\ QuietReset(u)

\* handle_mnemonic_input; words = 25 or not
HandleMnemonicInput(u, m, words25) ==
    /\ user_data[u].state = "connecting_wallet"
    /\ IF TooManyAttempts(u) THEN RefuseLockedOut(u)
       ELSE /\ IF ~words25
               THEN /\ Say(u, "InvalidMnemonic")
                    /\ UNCHANGED user_data
               ELSE /\ SetData(u, [user_data[u] EXCEPT !.mnemonic = m,
                                                        !.state = "connecting_password"])
                    /\ Say(u, "AskPassword")
            /\ UNCHANGED <<sessions, connected_address, wallet_files, now>>
            /\ Quiet

\* handle_connection_password with wallet.connect_wallet
HandleConnectionPassword(u, password) ==
    /\ user_data[u].state = "connecting_password"
    /\ IF TooManyAttempts(u) THEN RefuseLockedOut(u)
       ELSE LET m == user_data[u].mnemonic
            IN IF m = BadMnemonic
               THEN /\ SetData(u, EmptyData)
                    /\ Say(u, "ConnectFailed")
                    /\ UNCHANGED <<sessions, connected_address, wallet_files, now>>
                    /\ Quiet
               ELSE /\ LET blob == EncryptData(m, password)
                       IN /\ SaveAndConnect(m, blob)
                          /\ sessions' = PutSession(sessions, u, NewSession(AddressOf(m), blob, now))
                    /\ SetData(u, EmptyData)
                    /\ Say(u, "WalletConnected")
                    /\ UNCHANGED now
                    /\ QuietReset(u)

\* handle_disconnect
HandleDisconnect(u) ==
    /\ user_data[u].state = "none"
    /\ sessions' = IF HasSession(sessions, u) THEN DelSession(sessions, u) ELSE sessions
    /\ SetData(u, EmptyData)
    /\ Say(u, "Disconnected")
    /\ UNCHANGED <<connected_address, wallet_files, now>>
    /\ QuietReset(u)

\* cancel: /cancel, and any other command but /start
Cancel(u) ==
    /\ SetData(u, EmptyData)
    /\ Say(u, "Cancelled")
    /\ UNCHANGED <<sessions, connected_address, wallet_files, now>>
    /\ QuietReset(u)

\* ---------------------------------------------------------------- staging
\* a staging that stores the payload and leaves the state as it was
StageSingle_StateLeft(d, txn, type) ==
    [d EXCEPT !.pending_txn = <<txn>>, !.transaction_type = type]

\* item assignments / context.user_data.update of a staged single payload
StageSingle(d, txn, type) ==
    [d EXCEPT !.pending_txn = <<txn>>, !.state = "transaction_password",
              !.transaction_type = type]

\* the same for a payload group, as the builder returned it
StageGroup(d, txns, type) ==
    [d EXCEPT !.pending_txns = txns, !.state = "transaction_password",
              !.transaction_type = type]

\* what the external collaborators answer while an operation is staged:
\* "ok", "bad_params" (the request fails the handler's validation) or
\* "fail" (the ledger client or the SDK raises, or the balance is too low)
StageEnv == {"ok", "bad_params", "fail"}
\* the same for the transfer handlers, whose validation of the request is
\* modelled on the request itself
BuildEnv == {"ok", "fail"}

\* len(recipients) < 2: the fewest recipients of a multi-recipient transfer
MinRecipients == 2

\* What a recipient address of a request is: a valid address, 58 characters
\* of the base32 alphabet that fail the checksum, or anything else.
AddressKinds == {"valid", "bad_checksum", "malformed"}
\* validate_algorand_address: 58 characters of [A-Z2-7]
ValidateAlgorandAddress(address) == address \in {"valid", "bad_checksum"}
\* utils.validate_address: algosdk.encoding.is_valid_address
ValidateAddress(address) == address = "valid"

\* the parameters of a send_algo request: the keys the parser delivered
\* (fields) and the values of 'recipient' and 'amount'
SendParams(fields, recipient, amount) ==
    [fields |-> fields, recipient |-> recipient, amount |-> amount]
\* one entry of the 'recipients' list of a send_algo_multi request
Recipient(address, amount) == [address |-> address, amount |-> amount]

\* a validation of the amount without the upper bound
ValidAmount_NoUpperBound(amount) == ~NotPositive(amount)
\* the amount test of the transfer handlers (lines 667 and 737)
ValidAmount(amount) == ~(NotPositive(amount) \/ AboveMax(amount))

\* handle_send_transaction, lines 656-669: the request passes the validation
ValidSendParams(params) ==
    /\ {"amount", "recipient"} \subseteq params.fields
    /\ ValidateAlgorandAddress(params.recipient)
    /\ ValidAmount(params.amount)

\* handle_multi_send_transaction, lines 722-739; an absent or empty
\* 'recipients' is the empty list
ValidRecipients(recipients) ==
    /\ recipients # <<>>
    /\ Len(recipients) >= MinRecipients
    /\ \A i \in DOMAIN recipients :
          /\ ValidateAlgorandAddress(recipients[i].address)
          /\ ValidAmount(recipients[i].amount)

\* build_and_send_multi_transaction(frontend='telegram'), lines 94-115, for
\* recipients that passed its checks: the grouped unsigned payments
BuildMultiTransaction(sender, recipients) ==
    AssignGroupId([i \in DOMAIN recipients |->
                      PaymentTxn(sender, i, AmountMicroalgos(recipients[i].amount))])

\* send_nft_multi(frontend='telegram') for n recipients: the grouped unsigned
\* asset transfers
SendNftMulti(sender, n) ==
    AssignGroupId([i \in 1..n |-> AssetTransferTxn(sender, i)])

\* the rate check of a staging handler, as rate_check records it
RateChecked(S, u, r) ==
    rate_check' = IF HasSession(S, u)
                  THEN [user |-> u, at |-> now, before |-> S[u].recent_transactions,
                        allowed |-> r.ok]
                  ELSE NoRateCheck

\* The end of a staging handler whose builder calls sign_transaction without a
\* password (build_and_send_transaction, opt_in_to_asset, opt_out_of_asset):
\* the payload is staged when sign_transaction asks for approval; a signature
\* it returned would be submitted at once.
StageOrSend(u, txn, type, env) ==
    LET sign_result == SignTransaction(txn, NoPassword)
    IN IF env = "fail" \/ sign_result.status = "raise"
       THEN Say(u, "Failed") /\ UNCHANGED user_data /\ NoSigning
       ELSE IF sign_result.status = "needs_approval"
       THEN /\ SetData(u, StageSingle(user_data[u], txn, type))
            /\ Say(u, "AwaitingApproval")
            /\ NoSigning
       ELSE /\ Say(u, "Signed")
            /\ UNCHANGED user_data
            /\ signedNow' = {[user |-> u, idx |-> 1, sig |-> sign_result.sig[1]]}
            /\ resume' = NoResume
            /\ Aside

\* handle_send_transaction with build_and_send_transaction(frontend='telegram')
HandleSendTransaction(u, params, env) ==
    /\ user_data[u].state = "none"
    /\ LET v == ValidateSession(sessions, u, now)
           r == CheckUserRateLimit(v.sessions, u, now)
       IN IF ~v.ok
          THEN /\ sessions' = v.sessions
               /\ Say(u, "NotConnected")
               /\ UNCHANGED user_data
               /\ NoSigning
               /\ rate_check' = NoRateCheck
          ELSE /\ sessions' = r.sessions
               /\ RateChecked(v.sessions, u, r)
               /\ IF ~r.ok THEN Say(u, "RateLimited") /\ UNCHANGED user_data /\ NoSigning
                  ELSE IF ~ValidSendParams(params)
                       THEN Say(u, "ValidationError") /\ UNCHANGED user_data /\ NoSigning
                  ELSE IF ~ValidateAddress(params.recipient)
                       THEN Say(u, "Failed") /\ UNCHANGED user_data /\ NoSigning
                  ELSE StageOrSend(u, PaymentTxn(r.sessions[u].address, 1,
                                                 AmountMicroalgos(params.amount)),
                                   "send", env)
    /\ request' = [user |-> u, kind |-> "send", send |-> <<params>>, recipients |-> <<>>]
    /\ UNCHANGED <<connected_address, wallet_files, now, wrong_streak>>

\* handle_multi_send_transaction with build_and_send_multi_transaction
HandleMultiSendTransaction(u, recipients, env) ==
    /\ user_data[u].state = "none"
    /\ LET v == ValidateSession(sessions, u, now)
           r == CheckUserRateLimit(v.sessions, u, now)
       IN IF ~v.ok
          THEN /\ sessions' = v.sessions
               /\ Say(u, "NotConnected")
               /\ UNCHANGED user_data
               /\ rate_check' = NoRateCheck
          ELSE /\ sessions' = r.sessions
               /\ RateChecked(v.sessions, u, r)
               /\ IF ~r.ok THEN Say(u, "RateLimited") /\ UNCHANGED user_data
                  ELSE IF ~ValidRecipients(recipients)
                       THEN Say(u, "ValidationError") /\ UNCHANGED user_data
                  ELSE IF \E i \in DOMAIN recipients : ~ValidateAddress(recipients[i].address)
                       THEN Say(u, "Failed") /\ UNCHANGED user_data
                  ELSE IF env = "fail" THEN Say(u, "Failed") /\ UNCHANGED user_data
                  ELSE /\ SetData(u, [StageGroup(user_data[u],
                                                 BuildMultiTransaction(r.sessions[u].address,
                                                                       recipients),
                                                 "multi_send")
                                         EXCEPT !.recipients = Len(recipients)])
                       /\ Say(u, "AwaitingApproval")
    /\ NoSigning
    /\ request' = [user |-> u, kind |-> "multi", send |-> <<>>, recipients |-> recipients]
    /\ UNCHANGED <<connected_address, wallet_files, now, wrong_streak>>

\* handle_nft_creation with create_nft(frontend='telegram'), from the state d of
\* the conversation memory: [sessions, data, tag].  ipfs: the upload succeeds.
NftCreation(u, d, env, ipfs) ==
    LET v == ValidateSession(sessions, u, now)
        media == IF d.nft_video THEN "video" ELSE IF d.nft_image THEN "image" ELSE "none"
        d1 == IF media = "video" THEN [d EXCEPT !.nft_video = FALSE]
              ELSE IF media = "image" THEN [d EXCEPT !.nft_image = FALSE]
              ELSE d
    IN IF ~v.ok THEN [sessions |-> v.sessions, data |-> d, tag |-> "NotConnected"]
       ELSE IF env = "bad_params"
            THEN [sessions |-> v.sessions, data |-> d, tag |-> "ValidationError"]
       ELSE IF media # "none" /\ ~ipfs
            THEN [sessions |-> v.sessions, data |-> d, tag |-> "MediaError"]
       ELSE IF env = "fail"
            THEN [sessions |-> v.sessions, data |-> d1, tag |-> "Failed"]
       ELSE [sessions |-> v.sessions,
             data |-> StageSingle(d1, Txn("acfg", sessions[u].address), "nft"),
             tag |-> "AwaitingApproval"]

\* handle_message, intent create_nft
HandleNftCreation(u, env, ipfs) ==
    /\ user_data[u].state = "none"
    /\ LET res == NftCreation(u, user_data[u], env, ipfs)
       IN /\ sessions' = res.sessions
          /\ SetData(u, res.data)
          /\ Say(u, res.tag)
    /\ UNCHANGED <<connected_address, wallet_files, now>>
    /\ Quiet

\* handle_photo / handle_video: media is "image" or "video"; caption is "none",
\* "nft" (the caption parses as a create_nft request) or "other"
HandleMedia(u, media, caption, env, ipfs) ==
    /\ LET d == IF media = "image" THEN [user_data[u] EXCEPT !.nft_image = TRUE]
                ELSE [user_data[u] EXCEPT !.nft_video = TRUE]
       IN IF caption = "nft"
          THEN LET res == NftCreation(u, d, env, ipfs)
               IN /\ sessions' = res.sessions
                  /\ SetData(u, res.data)
                  /\ Say(u, res.tag)
          ELSE /\ SetData(u, d)
               /\ Say(u, "DescribeNft")
               /\ UNCHANGED sessions
    /\ UNCHANGED <<connected_address, wallet_files, now>>
    /\ Quiet

\* handle_send_nft with send_nft(frontend='telegram')
HandleSendNft(u, env) ==
    /\ user_data[u].state = "none"
    /\ IF ~HasSession(sessions, u) THEN Say(u, "NotConnected") /\ UNCHANGED user_data
       ELSE IF env = "bad_params" THEN Say(u, "ValidationError") /\ UNCHANGED user_data
       ELSE IF env = "fail" THEN Say(u, "Failed") /\ UNCHANGED user_data
       ELSE /\ SetData(u, StageSingle(user_data[u],
                                      AssetTransferTxn(sessions[u].address, 1),
                                      "nft_transfer"))
            /\ Say(u, "AwaitingApproval")
    /\ UNCHANGED <<sessions, connected_address, wallet_files, now>>
    /\ Quiet

\* handle_send_nft_multi with send_nft_multi(frontend='telegram'); n is the
\* number of valid recipient addresses of the request
HandleSendNftMulti(u, n, env) ==
    /\ user_data[u].state = "none"
    /\ IF ~HasSession(sessions, u) THEN Say(u, "NotConnected") /\ UNCHANGED user_data
       ELSE IF env = "bad_params" \/ n = 0 THEN Say(u, "ValidationError") /\ UNCHANGED user_data
       ELSE IF env = "fail" THEN Say(u, "Failed") /\ UNCHANGED user_data
       ELSE /\ SetData(u, StageGroup(user_data[u], SendNftMulti(sessions[u].address, n),
                                     "nft_multi_transfer"))
            /\ Say(u, "AwaitingApproval")
    /\ UNCHANGED <<sessions, connected_address, wallet_files, now>>
    /\ Quiet

\* handle_opt_in / handle_opt_out with opt_in_to_asset / opt_out_of_asset
\* (frontend='telegram'); type is "opt_in" or "opt_out"
HandleOpt(u, type, env) ==
    /\ user_data[u].state = "none"
    /\ LET v == ValidateSession(sessions, u, now)
       IN /\ sessions' = v.sessions
          /\ IF ~v.ok THEN Say(u, "NotConnected") /\ UNCHANGED user_data /\ NoSigning
             ELSE IF env = "bad_params"
                  THEN Say(u, "ValidationError") /\ UNCHANGED user_data /\ NoSigning
             ELSE StageOrSend(u, Txn("axfer", v.sessions[u].address), type, env)
    /\ rate_check' = NoRateCheck
    /\ request' = NoRequest
    /\ UNCHANGED <<connected_address, wallet_files, now, wrong_streak>>

\* handle_balance_check
HandleBalanceCheck(u) ==
    /\ user_data[u].state = "none"
    /\ LET v == ValidateSession(sessions, u, now)
       IN /\ sessions' = v.sessions
          /\ Say(u, IF v.ok THEN "Balance" ELSE "NotConnected")
    /\ UNCHANGED <<user_data, connected_address, wallet_files, now>>
    /\ Quiet

\* ------------------------------------------------- the builders, any caller
\* The builders of transaction_builder take the password and the frontend from
\* their caller.  Frontends: 'cli', 'telegram', and any other name ("other").
Frontends == {"cli", "telegram", "other"}
OperationKinds == {"send", "multi_send", "nft", "nft_transfer", "nft_multi_transfer",
                   "opt_in", "opt_out"}
\* the kinds whose payloads are a group
GroupTypes == {"multi_send", "nft_multi_transfer"}
\* the builders that ask sign_transaction whether the payload awaits approval:
\* build_and_send_transaction, opt_in_to_asset, opt_out_of_asset
SignFirstKinds == {"send", "opt_in", "opt_out"}

\* WalletManager.sign_transaction(txn, password, frontend).  typed and approve
\* are what the terminal user answers to getpass and to the approval question
\* of frontend 'cli'.
SignTransactionOn(txn, password, frontend, typed, approve) ==
    LET raise == [status |-> "raise", sig |-> <<>>]
    IN IF connected_address = 0 THEN raise
       ELSE IF wallet_files[connected_address] = <<>> THEN raise
       ELSE IF frontend = "telegram" /\ password = NoPassword
       THEN [status |-> "needs_approval", sig |-> <<>>]
       ELSE IF frontend = "cli" /\ ~approve THEN raise
       ELSE LET pw == IF frontend = "cli" THEN typed ELSE password
                blob == wallet_files[connected_address][1].encrypted_mnemonic
            IN IF pw = NoPassword \/ ~DecryptOK(blob, pw) THEN raise
               ELSE [status |-> "signed",
                     sig |-> << [txn |-> txn, key |-> DecryptData(blob, pw),
                                 blob |-> blob, pw |-> pw] >>]

\* the payloads a builder makes for an operation of the kind
BuiltFor(kind, sender) ==
    CASE kind = "send" -> <<PaymentTxn(sender, 1, Micro(2, 0))>>
      [] kind = "multi_send" ->
            AssignGroupId([i \in 1..MinRecipients |-> PaymentTxn(sender, i, Micro(2, 0))])
      [] kind = "nft" -> <<Txn("acfg", sender)>>
      [] kind = "nft_transfer" -> <<AssetTransferTxn(sender, 1)>>
      [] kind = "nft_multi_transfer" -> SendNftMulti(sender, MinRecipients)
      [] OTHER -> <<Txn("axfer", sender)>>

\* A builder called with password and frontend, the ledger accepting what it
\* is sent: [status, sigs].  The builders of SignFirstKinds return
\* 'awaiting_approval' when sign_transaction asks for approval; the others
\* return it whenever the frontend is 'telegram', before they sign.
Build(kind, sender, password, frontend, typed, approve) ==
    LET txns == BuiltFor(kind, sender)
        res == [i \in DOMAIN txns |->
                   SignTransactionOn(txns[i], password, frontend, typed, approve)]
    IN IF kind \notin SignFirstKinds /\ frontend = "telegram"
       THEN [status |-> "awaiting_approval", sigs |-> <<>>]
       ELSE IF \E i \in DOMAIN txns : res[i].status = "raise"
       THEN [status |-> "raise", sigs |-> <<>>]
       ELSE IF \E i \in DOMAIN txns : res[i].status = "needs_approval"
       THEN [status |-> "awaiting_approval", sigs |-> <<>>]
       ELSE [status |-> "success", sigs |-> [i \in DOMAIN txns |-> res[i].sig[1]]]

\* the arguments of a builder call, as request records them
BuilderCall(kind, password, frontend, typed, approve) ==
    [kind |-> kind, password |-> password, frontend |-> frontend, typed |-> typed,
     approve |-> approve]

\* A caller with a session calls the builder of the kind and does with the
\* result what the handlers of the bot do: it stages the payloads on
\* 'awaiting_approval' and reports the outcome otherwise.
Stage(u, kind, password, frontend, typed, approve) ==
    /\ user_data[u].state = "none"
    /\ HasSession(sessions, u)
    /\ LET b == Build(kind, sessions[u].address, password, frontend, typed, approve)
           txns == BuiltFor(kind, sessions[u].address)
       IN /\ IF b.status = "awaiting_approval"
             THEN /\ SetData(u, IF kind \in GroupTypes
                                THEN StageGroup(user_data[u], txns, kind)
                                ELSE StageSingle(user_data[u], txns[1], kind))
                  /\ Say(u, "AwaitingApproval")
             ELSE /\ UNCHANGED user_data
                  /\ Say(u, IF b.status = "success" THEN "Signed" ELSE "Failed")
          /\ signedNow' = {[user |-> u, idx |-> i, sig |-> b.sigs[i]] : i \in DOMAIN b.sigs}
    /\ request' = [user |-> u, kind |-> "stage",
                   send |-> <<BuilderCall(kind, password, frontend, typed, approve)>>,
                   recipients |-> <<>>]
    /\ resume' = NoResume
    /\ rate_check' = NoRateCheck
    /\ Aside
    /\ UNCHANGED <<sessions, connected_address, wallet_files, now, wrong_streak>>

\* ----------------------------------------------------------------- resume
\* What the ledger client answers during a resume: the reads before signing
\* fail the precondition ("pre_reject") or raise ("pre_error"); the submission
\* is accepted ("ok"), accepted but not confirmed in time ("unconfirmed"), or
\* raises with one of the messages the handler looks for, or with another
\* message: "overspend" (the balance does not cover the transaction) or any
\* other ("error").
LedgerEnv == {"ok", "unconfirmed", "pre_reject", "pre_error", "already in ledger",
              "must optin", "cannot close asset", "asset does not exist",
              "overspend", "error"}
\* an opt-out that is signed without a look at the holding
PreCheckedTypes_NoOptOut == {"nft_transfer"}
PreCheckedTypes == {"opt_out", "nft_transfer"}

\* an except branch without the test for "already in ledger"
ExceptBranch_NoAlreadyRecorded(u, c, msg) ==
    IF msg \in {"must optin", "cannot close asset", "asset does not exist"}
    THEN [data |-> c, reply |-> Reply(u, "OperationRejected")]
    ELSE LET failed_attempts == c.failed_attempts + 1
         IN IF failed_attempts >= MAX_PASSWORD_ATTEMPTS
            THEN [data |-> EmptyData, reply |-> Reply(u, "LockedOut")]
            ELSE [data |-> [c EXCEPT !.failed_attempts = failed_attempts],
                  reply |-> [user |-> u, tag |-> "IncorrectPassword",
                             remaining |-> MAX_PASSWORD_ATTEMPTS - failed_attempts]]

\* the except branch of handle_transaction_password, lines 963-987, with the
\* conversation memory c it finds: [data, reply]
ExceptBranch(u, c, msg) ==
    IF msg = "already in ledger" THEN [data |-> c, reply |-> Reply(u, "AlreadyRecorded")]
    ELSE IF msg \in {"must optin", "cannot close asset", "asset does not exist"}
         THEN [data |-> c, reply |-> Reply(u, "OperationRejected")]
    ELSE LET failed_attempts == c.failed_attempts + 1
         IN IF failed_attempts >= MAX_PASSWORD_ATTEMPTS
            THEN [data |-> EmptyData, reply |-> Reply(u, "LockedOut")]
            ELSE [data |-> [c EXCEPT !.failed_attempts = failed_attempts],
                  reply |-> [user |-> u, tag |-> "IncorrectPassword",
                             remaining |-> MAX_PASSWORD_ATTEMPTS - failed_attempts]]

\* sign_transaction raises because the password does not decrypt the secret
PasswordFails(password) ==
    /\ connected_address # 0
    /\ wallet_files[connected_address] # <<>>
    /\ ~DecryptOK(wallet_files[connected_address][1].encrypted_mnemonic, password)

\* a loop that hands over what it has after the first signature
SignAll_FirstOnly(txns, password) ==
    IF txns = <<>> \/ SignTransaction(txns[1], password).status # "signed" THEN <<>>
    ELSE << SignTransaction(txns[1], password).sig[1] >>

\* the signatures sign_transaction makes of the payloads txns with password:
\* a sequence as long as txns, or <<>> when a call raises
SignAll(txns, password) ==
    IF \E i \in 1..Len(txns) : SignTransaction(txns[i], password).status # "signed" THEN <<>>
    ELSE [i \in 1..Len(txns) |-> SignTransaction(txns[i], password).sig[1]]

\* the conversation memory after the payloads it holds were signed
MarkSigned(data) ==
    [data EXCEPT !.pending_txn = [i \in DOMAIN @ |-> Signed(@[i])],
                 !.pending_txns = [i \in DOMAIN @ |-> Signed(@[i])]]

\* the reply of the branch of transaction_type after a submission the ledger
\* accepted: "raise" where it raises (the asset id lookup of 'nft' when the
\* transaction is not confirmed in time; the reply_text call of the default
\* branch, which passes parse_mode twice)
AfterSubmit(type, env) ==
    IF type = "nft" THEN (IF env = "unconfirmed" THEN "raise" ELSE "Signed")
    ELSE IF type \in {"opt_in", "opt_out", "multi_send", "nft_transfer", "nft_multi_transfer"}
         THEN "Signed"
    ELSE "raise"

\* a handler that submits again when the ledger client raised
Submissions_RetryOnError(signed, env) ==
    IF signed = <<>> THEN 0
    ELSE IF env \in {"ok", "unconfirmed"} THEN 1 ELSE 2

\* The calls of algod_client.send_transaction / send_transactions that one run
\* of handle_transaction_password makes for the signatures `signed`, whatever
\* the ledger answers (env): each branch of transaction_type calls it once,
\* right after signing, and the except branch never calls it.
Submissions(signed, env) == IF signed = <<>> THEN 0 ELSE 1

\* handle_transaction_password, reached through handle_conversation_state
HandleTransactionPassword(u, password, env) ==
    /\ user_data[u].state = "transaction_password"
    /\ IF TooManyAttempts(u) THEN RefuseLockedOut(u)
       ELSE
       LET d == user_data[u]
           type == IF d.transaction_type = "none" THEN "send" ELSE d.transaction_type
           c == ClearedContext(d)
           txns == IF type \in GroupTypes THEN d.pending_txns ELSE d.pending_txn
           sigs == SignAll(txns, password)
           raised(msg) == ExceptBranch(u, c, msg)
           \* tried: sign_transaction was called with the password
           Finish(data, rep, signed, tried) ==
               LET wrong == tried /\ signed = <<>> /\ PasswordFails(password)
                   sent == signed # <<>>
               IN
               /\ SetData(u, IF signed = <<>> THEN data ELSE MarkSigned(data))
               /\ reply' = rep
               /\ signedNow' = {[user |-> u, idx |-> i, sig |-> signed[i]] : i \in 1..Len(signed)}
               /\ resume' = [user |-> u, decrypted |-> signed # <<>>,
                             wrong |-> wrong, sent |-> sent,
                             submissions |-> Submissions(signed, env),
                             type |-> type, failed_attempts |-> d.failed_attempts,
                             staged |-> d.pending_txn \o d.pending_txns,
                             streak |-> wrong_streak[u]]
               /\ wrong_streak' =
                     [wrong_streak EXCEPT ![u] =
                         IF signed # <<>> THEN 0
                         ELSE IF wrong
                              THEN IF @ < MAX_PASSWORD_ATTEMPTS THEN @ + 1 ELSE @
                              ELSE @]
               /\ rate_check' = NoRateCheck
               /\ request' = NoRequest
               /\ Aside
       IN /\ IF d.pending_txn = <<>> /\ d.pending_txns = <<>>
             THEN Finish(EmptyData, Reply(u, "NoPendingOperation"), <<>>, FALSE)
             ELSE IF ~HasSession(sessions, u)
             THEN Finish(raised("error").data, raised("error").reply, <<>>, FALSE)
             ELSE IF type \in PreCheckedTypes /\ env = "pre_reject"
             THEN Finish(c, Reply(u, "OperationRejected"), <<>>, FALSE)
             ELSE IF type = "opt_out" /\ env = "pre_error"
             THEN Finish(c, Reply(u, "OperationRejected"), <<>>, FALSE)
             ELSE IF type = "nft_transfer" /\ env = "pre_error"
             THEN Finish(raised("error").data, raised("error").reply, <<>>, FALSE)
             ELSE IF txns = <<>> \/ sigs = <<>>
             THEN Finish(raised("sign").data, raised("sign").reply, <<>>, TRUE)
             ELSE IF env \in {"already in ledger", "must optin", "cannot close asset",
                              "asset does not exist", "overspend", "error"}
             THEN Finish(raised(env).data, raised(env).reply, sigs, TRUE)
             ELSE IF AfterSubmit(type, env) = "raise"
             THEN Finish(raised("error").data, raised("error").reply, sigs, TRUE)
             ELSE Finish(c, Reply(u, "Signed"), sigs, TRUE)
          /\ UNCHANGED <<sessions, connected_address, wallet_files, now>>

\* handle_conversation_state with a state it does not know, and handle_message
\* with a text it cannot act on: nothing is staged
HandleOtherText(u) ==
    /\ user_data[u].state = "none"
    /\ Say(u, "NotUnderstood")
    /\ UNCHANGED <<sessions, user_data, connected_address, wallet_files, now>>
    /\ Quiet

\* ------------------------------------------------------------------ clock
Tick ==
    /\ now < MaxTime
    /\ now' = now + 1
    /\ UNCHANGED <<sessions, user_data, connected_address, wallet_files,
                   reply, signedNow, resume, rate_check, wrong_streak, request,
                   files, store, held, vault, balance_read>>

\* The bot is left alone for about the session timeout: a little less, exactly
\* that long, or a little more.  One such pause, taken while the clock is
\* still within MaxTime.
SleepDurations == {SessionTimeout - 1, SessionTimeout, SessionTimeout + 1}
Sleep(d) ==
    /\ now <= MaxTime
    /\ now' = now + d
    /\ UNCHANGED <<sessions, user_data, connected_address, wallet_files,
                   reply, signedNow, resume, rate_check, wrong_streak, request,
                   files, store, held, vault, balance_read>>

\* ------------------------------------------------------------ specification
\* number of recipients a multi-recipient request may name
MaxRecipients == 2
\* the passwords typed in the flows
TypedPasswords == {p \in Passwords : StrongPassword(p)}

\* The transfer requests the parser may deliver.  Amounts: negative, zero,
\* half a microALGO, one ALGO and half a microALGO, two ALGO, the largest
\* amount allowed, and half a microALGO more than that.
Amounts ==
    {Amount(0 - 1, 0), Amount(0, 0), Amount(0, 1), Amount(1, 1), Amount(2, 0),
     Amount(MaxAmount, 0), Amount(MaxAmount, 1)}
\* the parameters of a send_algo request: complete with an address of any
\* kind and any amount, or with a key missing
SendRequests ==
    {SendParams({"amount", "recipient"}, a, x) : a \in AddressKinds, x \in Amounts}
        \cup {SendParams(f, "valid", Amount(2, 0)) : f \in SUBSET {"amount", "recipient"}}
\* amounts within the bounds, with and without a fraction of a microALGO
FineAmounts == {Amount(1, 1), Amount(2, 0)}
RECURSIVE RecipientLists(_)
\* the lists of exactly n recipients with valid addresses and amounts within
\* the bounds
RecipientLists(n) ==
    IF n = 0 THEN {<<>>}
    ELSE {Append(l, Recipient("valid", x)) : l \in RecipientLists(n - 1),
                                             x \in FineAmounts}
\* n valid recipients of two ALGO each
GoodRecipients(n) == [i \in 1..n |-> Recipient("valid", Amount(2, 0))]
\* the same with one address of any kind, or one amount of any size
OneOddLists(n) ==
    {[GoodRecipients(n) EXCEPT ![i].address = a] : i \in 1..n, a \in AddressKinds}
        \cup {[GoodRecipients(n) EXCEPT ![i].amount = x] : i \in 1..n, x \in Amounts}
\* the 'recipients' of a send_algo_multi request; <<>> is an absent or empty
\* list
MultiRequests ==
    UNION {RecipientLists(n) \cup OneOddLists(n) : n \in 0..MaxRecipients}

\* a request that passes every check: two ALGO to a valid address
GoodSend == SendParams({"amount", "recipient"}, "valid", Amount(2, 0))
\* requests the handler's validation refuses: a missing amount, a malformed
\* address, an amount of zero
BadSends ==
    {SendParams({"recipient"}, "valid", Amount(2, 0)),
     SendParams({"amount", "recipient"}, "malformed", Amount(2, 0)),
     SendParams({"amount", "recipient"}, "valid", Amount(0, 0))}
\* a list the handler's validation refuses: the last address is malformed
BadRecipients ==
    [GoodRecipients(MaxRecipients) EXCEPT ![MaxRecipients].address = "malformed"]

\* The approval flow of one user who creates wallets: every operation kind
\* and every answer of the ledger; the clock stands still.
Trader == CHOOSE u \in Users : \A v \in Users : u <= v

Next ==
    \/ StartCreateWallet(Trader)
    \/ \E p \in Passwords : HandleWalletCreationPassword(Trader, p)
    \/ \E e \in BuildEnv : HandleSendTransaction(Trader, GoodSend, e)
    \/ \E params \in BadSends : HandleSendTransaction(Trader, params, "ok")
    \/ \E n \in 1..MaxRecipients : HandleMultiSendTransaction(Trader, GoodRecipients(n), "ok")
    \/ HandleMultiSendTransaction(Trader, GoodRecipients(MaxRecipients), "fail")
    \/ HandleMultiSendTransaction(Trader, BadRecipients, "ok")
    \/ \E e \in StageEnv : HandleNftCreation(Trader, e, TRUE)
    \/ \E c \in {"none", "nft"} : HandleMedia(Trader, "image", c, "ok", TRUE)
    \/ \E e \in StageEnv : HandleSendNft(Trader, e)
    \/ \E n \in 0..MaxRecipients : HandleSendNftMulti(Trader, n, "ok")
    \/ \E e \in StageEnv \ {"ok"} : HandleSendNftMulti(Trader, MaxRecipients, e)
    \/ \E t \in {"opt_in", "opt_out"}, e \in StageEnv : HandleOpt(Trader, t, e)
    \/ \E p \in TypedPasswords, e \in LedgerEnv : HandleTransactionPassword(Trader, p, e)
    \/ HandleBalanceCheck(Trader)
    \/ HandleDisconnect(Trader)
    \/ HandleOtherText(Trader)
    \/ Cancel(Trader)

Spec == Init /\ [][Next]_vars

\* Two users: wallet creation and connection by mnemonic, the staging
\* of an opt-in and of an asset transfer, and the approval; the clock stands
\* still and the ledger accepts what it is handed.
NextUsers ==
    \E u \in Users :
        \/ StartCreateWallet(u)
        \/ \E p \in TypedPasswords : HandleWalletCreationPassword(u, p)
        \/ StartConnectWallet(u)
        \/ \E m \in MnemonicInputs, w \in BOOLEAN : HandleMnemonicInput(u, m, w)
        \/ \E p \in TypedPasswords : HandleConnectionPassword(u, p)
        \/ HandleOpt(u, "opt_in", "ok")
        \/ HandleSendNft(u, "ok")
        \/ \E p \in TypedPasswords : HandleTransactionPassword(u, p, "ok")
        \/ HandleDisconnect(u)

SpecUsers == Init /\ [][NextUsers]_vars

\* The sliding window of one user: transfers are staged and cancelled or
\* approved while the clock advances.
NextRate ==
    \/ StartCreateWallet(Trader)
    \/ HandleWalletCreationPassword(Trader, "pass1234")
    \/ \E e \in BuildEnv : HandleSendTransaction(Trader, GoodSend, e)
    \/ \E params \in BadSends : HandleSendTransaction(Trader, params, "ok")
    \/ \E n \in 1..MaxRecipients : HandleMultiSendTransaction(Trader, GoodRecipients(n), "ok")
    \/ HandleTransactionPassword(Trader, "pass1234", "ok")
    \/ HandleBalanceCheck(Trader)
    \/ HandleDisconnect(Trader)
    \/ Cancel(Trader)
    \/ Tick

SpecRate == Init /\ [][NextRate]_vars

\* Session expiry: one user creates a wallet, stages operations, approves or
\* cancels them and asks for the balance while the clock ticks and the bot is
\* left alone for about a day.
NextExpiry ==
    \/ StartCreateWallet(Trader)
    \/ HandleWalletCreationPassword(Trader, "pass1234")
    \/ HandleNftCreation(Trader, "ok", TRUE)
    \/ HandleSendNft(Trader, "ok")
    \/ \E n \in 1..MaxRecipients : HandleSendNftMulti(Trader, n, "ok")
    \/ \E t \in {"opt_in", "opt_out"} : HandleOpt(Trader, t, "ok")
    \/ \E p \in TypedPasswords : HandleTransactionPassword(Trader, p, "ok")
    \/ HandleBalanceCheck(Trader)
    \/ Cancel(Trader)
    \/ Tick
    \/ \E d \in SleepDurations : Sleep(d)

SpecExpiry == Init /\ [][NextExpiry]_vars

\* The answers of the ledger: one user with one wallet stages an operation of
\* each kind and approves it with a right or a wrong password; the ledger
\* answers the reads and the submission in every way.
NextLedger ==
    \/ StartCreateWallet(Trader)
    \/ HandleWalletCreationPassword(Trader, "pass1234")
    \/ HandleSendTransaction(Trader, GoodSend, "ok")
    \/ HandleMultiSendTransaction(Trader, GoodRecipients(MaxRecipients), "ok")
    \/ HandleNftCreation(Trader, "ok", TRUE)
    \/ HandleSendNft(Trader, "ok")
    \/ \E n \in 1..MaxRecipients : HandleSendNftMulti(Trader, n, "ok")
    \/ \E t \in {"opt_in", "opt_out"} : HandleOpt(Trader, t, "ok")
    \/ \E p \in TypedPasswords, e \in LedgerEnv : HandleTransactionPassword(Trader, p, e)
    \/ Cancel(Trader)

SpecLedger == Init /\ [][NextLedger]_vars

\* Staging of transfers: one user with a wallet sends transfer requests of
\* every shape, to one recipient and to several, and multi-recipient asset
\* sends, and approves or cancels what was staged.
NextStaging ==
    \/ StartCreateWallet(Trader)
    \/ HandleWalletCreationPassword(Trader, "pass1234")
    \/ \E params \in SendRequests : HandleSendTransaction(Trader, params, "ok")
    \/ HandleSendTransaction(Trader, GoodSend, "fail")
    \/ \E r \in MultiRequests : HandleMultiSendTransaction(Trader, r, "ok")
    \/ HandleMultiSendTransaction(Trader, GoodRecipients(MaxRecipients), "fail")
    \/ \E n \in 0..MaxRecipients : HandleSendNftMulti(Trader, n, "ok")
    \/ \E p \in TypedPasswords : HandleTransactionPassword(Trader, p, "ok")
    \/ Cancel(Trader)

SpecStaging == Init /\ [][NextStaging]_vars

\* the session record of a user in the mappings that are saved
SavedSession(u) ==
    LET w == CHOOSE x \in Wallets : \A y \in Wallets : x <= y
    IN NewSession(AddressOf(w), EncryptData(w, "pass1234"), 0)
\* the mappings save_sessions is called with
SavedMappings == {[u \in U |-> SavedSession(u)] : U \in SUBSET Users}

\* save_sessions step by step, with crashes, and readers of the sessions file
NextSave ==
    \/ \E M \in SavedMappings : SaveOpen(M)
    \/ SaveWrite
    \/ SaveClose
    \/ SaveReplace
    \/ SaveIOError
    \/ Crash
    \/ Load

SpecSave == Init /\ [][NextSave]_vars

\* the same with a sessions file that is damaged from outside, while the
\* clock advances
NextStore ==
    \/ SaveOpen([u \in Users |-> SavedSession(u)])
    \/ SaveWrite
    \/ SaveClose
    \/ SaveReplace
    \/ Load
    \/ \E k \in DamageKinds : Damage(k)
    \/ Tick

SpecStore == Init /\ [][NextStore]_vars

\* timestamps a session may hold in the sections' specification
MaxRecorded == 2
\* The sections of all users in any order, with one pause longer than the
\* session timeout.  A user creates the first key pair and connects the last.
NextSessions ==
    \/ \E u \in Users : SectionLoad(u, "create", 1)
    \/ \E u \in Users : SectionLoad(u, "connect", MaxWallets)
    \/ \E u \in Users : SectionLoad(u, "validate", 0)
    \/ \E u \in Users :
          /\ HasSession(sessions, u) => Len(sessions[u].recent_transactions) < MaxRecorded
          /\ SectionLoad(u, "rate", 0)
    \/ \E u \in Users : SectionLoad(u, "disconnect", 0)
    \/ \E u \in Users : SectionSave(u)
    \/ Sleep(SessionTimeout + 1)

SpecSessions == Init /\ [][NextSessions]_vars

\* _encrypt_data on every secret phrase, password and salt, the blob damaged
\* or not, and _decrypt_data with every password
NextVault ==
    \/ \E w \in Wallets, p \in Passwords, s \in Salts : Encrypt(w, p, s)
    \/ \E k \in BlobDamages : DamageBlob(k)
    \/ \E p \in Passwords : DecryptBlob(p)

SpecVault == Init /\ [][NextVault]_vars

\* The builders called for a user with a wallet, for every kind and frontend,
\* with no password, the wallet's password or another; at the terminal the
\* user types one of the two passwords and approves or not.
NextStage ==
    \/ StartCreateWallet(Trader)
    \/ HandleWalletCreationPassword(Trader, "pass1234")
    \/ \E kind \in OperationKinds, p \in {NoPassword} \cup TypedPasswords,
          f \in Frontends, typed \in TypedPasswords, approve \in BOOLEAN :
          Stage(Trader, kind, p, f, typed, approve)
    \/ Cancel(Trader)

SpecStage == Init /\ [][NextStage]_vars

\* Creation and connection alone: every user creates wallets and connects
\* phrases; nobody disconnects.
NextConnect ==
    \E u \in Users :
        \/ StartCreateWallet(u)
        \/ \E p \in TypedPasswords : HandleWalletCreationPassword(u, p)
        \/ StartConnectWallet(u)
        \/ \E m \in MnemonicInputs : HandleMnemonicInput(u, m, TRUE)
        \/ \E p \in TypedPasswords : HandleConnectionPassword(u, p)

SpecConnect == Init /\ [][NextConnect]_vars

\* The window of one user across sessions: transfers are staged and
\* cancelled, the user disconnects, creates a wallet again or connects one
\* by its mnemonic, while the clock advances.
NextWindow ==
    \/ StartCreateWallet(Trader)
    \/ HandleWalletCreationPassword(Trader, "pass1234")
    \/ StartConnectWallet(Trader)
    \/ \E m \in Wallets : HandleMnemonicInput(Trader, m, TRUE)
    \/ HandleConnectionPassword(Trader, "pass1234")
    \/ HandleSendTransaction(Trader, GoodSend, "ok")
    \/ HandleMultiSendTransaction(Trader, GoodRecipients(MaxRecipients), "ok")
    \/ HandleDisconnect(Trader)
    \/ Cancel(Trader)
    \/ Tick

SpecWindow == Init /\ [][NextWindow]_vars

\* The passwords of the two flows that store a session: every user types
\* passwords that satisfy the strength rule and one that does not, while
\* creating a wallet and while connecting one by its mnemonic.
NextPolicy ==
    \E u \in Users :
        \/ StartCreateWallet(u)
        \/ \E p \in Passwords : HandleWalletCreationPassword(u, p)
        \/ StartConnectWallet(u)
        \/ \E m \in Wallets : HandleMnemonicInput(u, m, TRUE)
        \/ \E p \in Passwords : HandleConnectionPassword(u, p)
        \/ Cancel(u)

SpecPolicy == Init /\ [][NextPolicy]_vars

\* The balance reads of an opt-out resume: users create wallets and stage
\* opt-outs; the branch is entered for a user with a staged opt-out, and the
\* account answers each read in every way.  Every step of the branch is
\* taken once it can be: account_info returns or raises, time.sleep returns.
NextOptOut ==
    \/ \E u \in Users :
          \/ StartCreateWallet(u)
          \/ HandleWalletCreationPassword(u, "pass1234")
          \/ HandleOpt(u, "opt_out", "ok")
          \/ BeginBalanceRead(u)
    \/ \E answer \in ReadAnswers : AccountInfo(answer)
    \/ TimeSleep
    \/ AfterLoop

BalanceReadSteps == (\E answer \in ReadAnswers : AccountInfo(answer)) \/ TimeSleep \/ AfterLoop

SpecOptOut == Init /\ [][NextOptOut]_vars /\ WF_vars(BalanceReadSteps)

\* ------------------------------------------------------------------ claims
Pending(u) == user_data[u].pending_txn \o user_data[u].pending_txns
Range(seq) == {seq[i] : i \in DOMAIN seq}
Resumed == resume.user # 0
\* the password typed in the last update did not decrypt the secret
WrongPassword == Resumed /\ resume.wrong

\* C1: a payload is signed, and handed to the ledger, only while a transaction
\* password is handled, with a password that decrypts the encrypted secret of
\* the wallet file, and it is a payload that was staged; an update that ends
\* with the request for approval signs and submits nothing and leaves the
\* payload staged.
C1_SignedOnlyAfterPassword ==
    /\ \A e \in signedNow :
          /\ Resumed /\ resume.user = e.user
          /\ e.sig.pw # NoPassword
          /\ connected_address # 0
          /\ e.sig.blob = wallet_files[connected_address][1].encrypted_mnemonic
          /\ DecryptOK(e.sig.blob, e.sig.pw)
          /\ e.sig.txn \in Range(resume.staged)
    /\ resume.sent => resume.decrypted /\ signedNow # {}
    /\ reply.tag = "AwaitingApproval" =>
          /\ signedNow = {} /\ ~Resumed
          /\ user_data[reply.user].state = "transaction_password"
          /\ Pending(reply.user) # <<>>

C1_Witness ==
    /\ Resumed /\ resume.sent /\ reply.tag = "Signed"
    /\ \E e \in signedNow : e.sig.txn.type = "axfer"

C3_WrongPasswordKeepsPending ==
    (WrongPassword /\ resume.failed_attempts + 1 < MAX_PASSWORD_ATTEMPTS) =>
        /\ user_data[resume.user].failed_attempts = resume.failed_attempts + 1
        /\ user_data[resume.user].state = "transaction_password"
        /\ Pending(resume.user) = resume.staged
        /\ reply.tag = "IncorrectPassword"
        /\ reply.remaining = MAX_PASSWORD_ATTEMPTS - user_data[resume.user].failed_attempts

C3_Witness == WrongPassword /\ resume.failed_attempts = 1

\* C4 (as claimed): the third wrong password in a row ends in the locked-out
\* answer, with the pending operation discarded.
C4_ThreeWrongLockOut ==
    (WrongPassword /\ wrong_streak[resume.user] >= MAX_PASSWORD_ATTEMPTS) =>
        /\ reply.tag = "LockedOut"
        /\ Pending(resume.user) = <<>>

C4_Witness == WrongPassword /\ wrong_streak[resume.user] >= MAX_PASSWORD_ATTEMPTS

\* C5 (as claimed): a password typed after the maximum number of failed
\* verifications in a row, with no wallet creation, connection, disconnection
\* or cancellation in between, is rejected: nothing is decrypted or signed.
C5_LockedOutRejects ==
    (Resumed /\ resume.streak >= MAX_PASSWORD_ATTEMPTS) =>
        /\ ~resume.decrypted
        /\ signedNow = {}

C5_Witness == Resumed /\ resume.streak >= MAX_PASSWORD_ATTEMPTS

\* C6 (as claimed): after a transaction password that decrypted the secret,
\* failed_attempts is zero.
C6_CorrectPasswordResets ==
    (Resumed /\ resume.decrypted) => user_data[resume.user].failed_attempts = 0

C6_Witness == Resumed /\ resume.decrypted /\ resume.type = "send"

\* C7 (as claimed): the conversation memory never holds a staged single
\* payload and a staged payload group together.
C7_OnePendingOperation ==
    \A u \in Users :
        ~(user_data[u].pending_txn # <<>> /\ user_data[u].pending_txns # <<>>)

C7_Witness ==
    \E u \in Users : user_data[u].pending_txns # <<>> /\ user_data[u].nft_image

\* C8 (as claimed): every signature made for a user is made with the key of
\* that user's session record, after decrypting the encrypted secret of that
\* record.
C8_SignsWithOwnSecret ==
    \A e \in signedNow :
        /\ HasSession(sessions, e.user)
        /\ e.sig.blob = sessions[e.user].encrypted_mnemonic
        /\ AddressOf(e.sig.key) = sessions[e.user].address

C8_Witness ==
    \E e \in signedNow : \E v \in DOMAIN sessions : v # e.user

\* the recorded timestamps of a list that lie inside the window ending at t
InWindow(list, t) == {i \in DOMAIN list : list[i] > t - HourTicks}

\* C9: a rate check that meets fewer than 10 recorded timestamps inside the
\* last hour allows the operation and records its time after the timestamps
\* still inside the window; one that meets 10 refuses it, records nothing and
\* stages nothing.  So the first 10 operations of a window pass, the 11th is
\* refused, and operations pass again once recorded timestamps have left the
\* window.
C9_SlidingWindow ==
    rate_check.user # 0 =>
        LET u == rate_check.user
            before == rate_check.before
            inside == InWindow(before, rate_check.at)
            after == sessions[u].recent_transactions
        IN /\ rate_check.allowed <=> Cardinality(inside) < MAX_TRANSACTIONS_PER_HOUR
           /\ rate_check.allowed =>
                 /\ Len(after) = Cardinality(inside) + 1
                 /\ after[Len(after)] = rate_check.at
                 /\ \A i \in 1..(Len(after) - 1) : after[i] > rate_check.at - HourTicks
                 /\ \A t \in 0..rate_check.at :
                       Cardinality({i \in 1..(Len(after) - 1) : after[i] = t})
                           = Cardinality({i \in inside : before[i] = t})
           /\ ~rate_check.allowed =>
                 /\ after = before
                 /\ reply.tag = "RateLimited"
                 /\ Pending(u) = <<>>

C9_Witness ==
    /\ rate_check.user # 0 /\ rate_check.allowed
    /\ Len(rate_check.before) = MAX_TRANSACTIONS_PER_HOUR
    /\ InWindow(rate_check.before, rate_check.at) # {}

\* C10: no stored session record holds more than 10 recent timestamps.
C10_WindowBounded ==
    \A u \in DOMAIN sessions :
        Len(sessions[u].recent_transactions) <= MAX_TRANSACTIONS_PER_HOUR

C10_Witness ==
    /\ \E u \in DOMAIN sessions :
        Len(sessions[u].recent_transactions) = MAX_TRANSACTIONS_PER_HOUR
    /\ rate_check.user # 0 /\ ~rate_check.allowed

\* the timestamps a user's session record held when the last update began
RecordedBefore(u) ==
    IF rate_check.user = u THEN rate_check.before
    ELSE sessions[u].recent_transactions

\* C11 (as claimed): an update that ends with an operation of any kind staged
\* met fewer than 10 recorded timestamps inside the last hour.
C11_RateGateEveryKind ==
    (reply.tag = "AwaitingApproval" /\ HasSession(sessions, reply.user)) =>
        Cardinality(InWindow(RecordedBefore(reply.user), now)) < MAX_TRANSACTIONS_PER_HOUR

C11_Witness ==
    /\ reply.tag = "AwaitingApproval"
    /\ user_data[reply.user].transaction_type = "opt_in"
    /\ Len(sessions[reply.user].recent_transactions) = MAX_TRANSACTIONS_PER_HOUR

\* the session record of u is older than the timeout
Expired(u) == now - sessions[u].last_activity > SessionTimeout

\* C12: a session validation (here: the one of a balance check) of a stored
\* session whose last activity is more than 24 hours past answers not valid
\* and removes the record; of a session within the timeout it answers valid
\* and keeps the record, changing only its last activity.
C12_ExpiryRemovesSession ==
    [][\A u \in DOMAIN sessions :
          HandleBalanceCheck(u) =>
              IF Expired(u)
              THEN reply'.tag = "NotConnected" /\ ~HasSession(sessions', u)
              ELSE /\ reply'.tag = "Balance"
                   /\ HasSession(sessions', u)
                   /\ sessions'[u].address = sessions[u].address
                   /\ sessions'[u].encrypted_mnemonic = sessions[u].encrypted_mnemonic
                   /\ sessions'[u].recent_transactions = sessions[u].recent_transactions]_vars

\* an expired session was validated and removed: the spec has no disconnect,
\* so a user with a wallet file and no session lost it to expiry
C12_Witness ==
    /\ reply.tag = "NotConnected"
    /\ ~HasSession(sessions, reply.user)
    /\ connected_address # 0
    /\ now > SessionTimeout

\* a request of user u to stage an operation, of any kind
StagingRequest(u) ==
    \/ \E params \in SendRequests, e \in BuildEnv : HandleSendTransaction(u, params, e)
    \/ \E r \in MultiRequests, e \in BuildEnv : HandleMultiSendTransaction(u, r, e)
    \/ \E e \in StageEnv : HandleNftCreation(u, e, TRUE)
    \/ \E e \in StageEnv : HandleSendNft(u, e)
    \/ \E n \in 0..MaxRecipients, e \in StageEnv : HandleSendNftMulti(u, n, e)
    \/ \E t \in {"opt_in", "opt_out"}, e \in StageEnv : HandleOpt(u, t, e)

\* C13 (as claimed): a staging request of a user without a session, or with
\* a session older than the timeout, is answered NotConnected and leaves no
\* pending payload and no wait for a password.
C13_NotConnectedStagesNothing ==
    [][\A u \in Users :
          (StagingRequest(u) /\ (~HasSession(sessions, u) \/ Expired(u))) =>
              /\ reply'.tag = "NotConnected"
              /\ Pending(u)' = <<>>
              /\ user_data'[u].state = "none"]_vars

C13_Witness ==
    /\ reply.tag = "AwaitingApproval"
    /\ HasSession(sessions, reply.user)
    /\ Expired(reply.user)

\* an interaction of user u that the bot serves from u's session
AuthenticatedInteraction(u) ==
    \/ StagingRequest(u)
    \/ HandleBalanceCheck(u)
    \/ \E p \in TypedPasswords, e \in LedgerEnv : HandleTransactionPassword(u, p, e)

\* C14 (as claimed): after an interaction served from a session, the stored
\* record's last activity is the time of the interaction.
C14_LastActivityUpdated ==
    [][\A u \in Users :
          (AuthenticatedInteraction(u) /\ HasSession(sessions, u) /\ HasSession(sessions', u)) =>
              sessions'[u].last_activity = now]_vars

C14_Witness ==
    /\ Resumed /\ resume.decrypted /\ reply.tag = "Signed"
    /\ HasSession(sessions, resume.user)
    /\ sessions[resume.user].last_activity < now
    /\ ~Expired(resume.user)

\* the payloads a transaction password typed now would sign, given the
\* conversation memory d
Approvable(d) ==
    IF d.state # "transaction_password" THEN <<>>
    ELSE IF d.transaction_type \in GroupTypes THEN d.pending_txns
    ELSE d.pending_txn

\* a photo or video sent by user u, with any caption
MediaUpload(u) ==
    \E media \in {"image", "video"}, caption \in {"none", "nft", "other"},
       e \in StageEnv, ipfs \in BOOLEAN : HandleMedia(u, media, caption, e, ipfs)

\* C15 (as claimed): a media upload that arrives while a password is awaited
\* ends the wait for the pending payload: either nothing is approvable any
\* more, or the upload staged an asset issuance and that is what a password
\* would now sign.
C15_MediaDiscardsPending ==
    [][\A u \in Users :
          (MediaUpload(u) /\ Approvable(user_data[u]) # <<>>) =>
              \/ Approvable(user_data'[u]) = <<>>
              \/ /\ reply'.tag = "AwaitingApproval"
                 /\ user_data'[u].transaction_type = "nft"
                 /\ Len(Approvable(user_data'[u])) = 1
                 /\ Approvable(user_data'[u])[1].type = "acfg"]_vars

C15_Witness ==
    /\ reply.tag = "DescribeNft"
    /\ Approvable(user_data[reply.user]) # <<>>

\* what the ledger holds of the asset for the account: the account is not
\* opted in, holds none of it, or holds some
Holdings == {"absent", "zero", "positive"}

\* An opt-out request of user u while the ledger holds `holding` of the asset.
\* handle_opt_out and opt_out_of_asset ask the ledger client for the suggested
\* parameters only: the holding is never read, so the step does not depend on
\* it.
OptOutRequest(u, holding) == HandleOpt(u, "opt_out", "ok")

\* C16 (as claimed): an opt-out requested by a connected user while the account
\* holds some of the asset is answered OperationRejected; nothing is staged
\* and no password is awaited.
C16_OptOutRejectedAtStaging ==
    [][\A u \in Users :
          (OptOutRequest(u, "positive") /\ HasSession(sessions, u) /\ ~Expired(u)) =>
              /\ reply'.tag = "OperationRejected"
              /\ Pending(u)' = <<>>
              /\ user_data'[u].state = "none"]_vars

C16_Witness ==
    /\ reply.tag = "AwaitingApproval"
    /\ user_data[reply.user].transaction_type = "opt_out"
    /\ Approvable(user_data[reply.user]) # <<>>

\* the holdings under which the balance reads of the opt-out branch end as the
\* ledger answer env says: refused (not found after the retries, or an amount
\* above zero), every read raising (nothing found), or found with amount zero
HoldingRead(env) ==
    IF env = "pre_reject" THEN {"absent", "positive"}
    ELSE IF env = "pre_error" THEN {"absent"}
    ELSE {"zero"}

\* C17: a transaction password for a staged opt-out signs the payload only if
\* the balance reads of that same update found the holding with amount zero;
\* when they found an amount above zero, or no holding, nothing is signed and
\* nothing is handed to the ledger.
C17_OptOutSignedOnlyAtZero ==
    [][\A u \in Users : \A p \in TypedPasswords : \A e \in LedgerEnv :
          (HandleTransactionPassword(u, p, e) /\ user_data[u].transaction_type = "opt_out") =>
              /\ signedNow' # {} => HoldingRead(e) = {"zero"}
              /\ HoldingRead(e) # {"zero"} =>
                    /\ signedNow' = {}
                    /\ ~resume'.sent
                    /\ reply'.tag = "OperationRejected"]_vars

C17_Witness ==
    /\ Resumed /\ resume.type = "opt_out"
    /\ resume.decrypted /\ resume.sent /\ reply.tag = "Signed"

C19_AlreadyRecordedIsSuccess ==
    [][\A u \in Users : \A p \in TypedPasswords :
          /\ (HandleTransactionPassword(u, p, "already in ledger") /\ signedNow' # {}) =>
                /\ reply' = Reply(u, "AlreadyRecorded")
                /\ user_data'[u].failed_attempts <= user_data[u].failed_attempts
                /\ wrong_streak'[u] = 0
                /\ Pending(u)' = <<>>
                /\ user_data'[u].state = "none"
          /\ (reply'.tag = "AlreadyRecorded" /\ reply'.user = u /\ resume'.user = u) =>
                resume'.sent]_vars

C19_Witness ==
    /\ reply.tag = "AlreadyRecorded"
    /\ Resumed /\ resume.sent /\ resume.failed_attempts > 0
    /\ user_data[resume.user].failed_attempts = 0

\* the answers with which the ledger refuses a submission for a precondition
\* of the operation: the recipient has not opted in, the balance does not
\* cover it, the asset does not exist, the account still holds the asset
PreconditionViolations ==
    {"must optin", "overspend", "asset does not exist", "cannot close asset"}

\* C20 (as claimed): when the ledger refuses a submission for a precondition
\* of the operation, the update ends with OperationRejected, after one
\* submission.
C20_PreconditionRejected ==
    [][\A u \in Users : \A p \in TypedPasswords : \A e \in PreconditionViolations :
          (HandleTransactionPassword(u, p, e) /\ signedNow' # {}) =>
              /\ reply' = Reply(u, "OperationRejected")
              /\ resume'.submissions = 1]_vars

C20_Witness ==
    /\ Resumed /\ resume.sent /\ resume.type = "nft_transfer"
    /\ reply.tag = "OperationRejected"

\* the members of a payload group among the payloads seq
GroupMembers(seq) == {t \in Range(seq) : t.group # <<>>}

\* C21: a staged payload group (multi-recipient transfer or multi-recipient
\* asset send) carries one and the same group id on every payload; and when a
\* transaction password for it reaches the ledger, every member of the group
\* was signed and all of them were handed over in one submission call.
C21_OneGroupOneSubmission ==
    /\ \A u \in Users :
          LET g == user_data[u].pending_txns
          IN \A i \in DOMAIN g : g[i].group # <<>> /\ g[i].group = g[1].group
    /\ (Resumed /\ resume.type \in GroupTypes /\ resume.sent) =>
          /\ resume.submissions = 1
          /\ GroupMembers(resume.staged) # {}
          /\ {e.sig.txn : e \in signedNow} = GroupMembers(resume.staged)
          /\ \A t1, t2 \in GroupMembers(resume.staged) : t1.group = t2.group

C21_Witness ==
    /\ Resumed /\ resume.sent /\ resume.type = "nft_multi_transfer"
    /\ Cardinality(signedNow) >= 2
    /\ reply.tag = "Signed"

\* a multi-recipient request of user u (transfer or asset send) whose
\* recipient list, after the handler's validation, has fewer than
\* MinRecipients entries
FewRecipientsRequest(u) ==
    \/ \E r \in MultiRequests, e \in BuildEnv :
          Len(r) < MinRecipients /\ HandleMultiSendTransaction(u, r, e)
    \/ \E n \in 0..(MinRecipients - 1), e \in StageEnv : HandleSendNftMulti(u, n, e)

\* C22 (as claimed): a multi-recipient request whose validated recipient list
\* has fewer than 2 entries is refused: the update does not end with the
\* request for approval, no payload is pending and no password is awaited.
C22_FewerThanTwoRejected ==
    [][\A u \in Users :
          FewRecipientsRequest(u) =>
              /\ reply'.tag # "AwaitingApproval"
              /\ Pending(u)' = <<>>
              /\ user_data'[u].state = "none"]_vars

C22_Witness ==
    /\ reply.tag = "AwaitingApproval"
    /\ user_data[reply.user].transaction_type = "nft_multi_transfer"
    /\ Len(user_data[reply.user].pending_txns) < MinRecipients

\* the amount lies in (0, 1,000,000] ALGO
AmountInRange(a) ==
    /\ a.algo > 0 \/ (a.algo = 0 /\ a.parts > 0)
    /\ a.algo < MaxAmount \/ (a.algo = MaxAmount /\ a.parts = 0)
\* a send_algo request with a key missing, a malformed address or an amount
\* out of range
InvalidSend(params) ==
    \/ "amount" \notin params.fields
    \/ "recipient" \notin params.fields
    \/ params.recipient = "malformed"
    \/ ~AmountInRange(params.amount)
\* a recipient list that is absent or empty, or has an entry with a malformed
\* address or an amount out of range
InvalidRecipients(recipients) ==
    \/ recipients = <<>>
    \/ \E i \in DOMAIN recipients :
          \/ recipients[i].address = "malformed"
          \/ ~AmountInRange(recipients[i].amount)
\* the last update of user u staged nothing and signed nothing
NothingStaged(u) ==
    /\ Pending(u) = <<>>
    /\ user_data[u].state = "none"
    /\ signedNow = {}
    /\ reply.tag # "AwaitingApproval"
\* the last update got as far as the validation of the request: the session
\* was valid and the rate check allowed it
Validated(u) == rate_check.user = u /\ rate_check.allowed

RequestedAmounts(recipients) == [i \in DOMAIN recipients |-> recipients[i].amount]
\* the sum of the amounts of the payloads txns, in microALGO
PayloadTotal(txns) ==
    LET amts == [i \in DOMAIN txns |-> txns[i].amt]
    IN Micro(SumAlgo(amts) + (SumMicro(amts) \div MicroAlgosPerAlgo),
             SumMicro(amts) % MicroAlgosPerAlgo)

\* C24 (as claimed): the amounts of the payloads of a staged multi-recipient
\* transfer sum to the requested total (the total_amount shown for approval)
\* converted to microALGO.
C24_AmountsSumToTotal ==
    (request.kind = "multi" /\ reply.tag = "AwaitingApproval") =>
        PayloadTotal(user_data[request.user].pending_txns)
            = AmountMicroalgos(TotalAmount(RequestedAmounts(request.recipients)))

\* a transfer was staged whose recipients all get an amount with a fraction of
\* a microALGO
C24_Witness ==
    /\ request.kind = "multi" /\ reply.tag = "AwaitingApproval"
    /\ Len(user_data[request.user].pending_txns) = Len(request.recipients)
    /\ \A i \in DOMAIN request.recipients : request.recipients[i].amount.parts > 0

\* the mapping a reader of the sessions file gets
FileMapping == IF files.sessions_file = <<>> THEN <<>> ELSE files.sessions_file[1].of

\* C25: at every point of save_sessions, a crash between the writing of the
\* temporary file and the rename included, the sessions file is either absent
\* or complete, and holds the mapping it held before the save began or the
\* mapping that is saved; a load_sessions at that point returns one of the
\* two.
C25_SessionsFileOldOrNew ==
    /\ files.sessions_file # <<>> => Complete(files.sessions_file[1])
    /\ FileMapping \in {store.prev, store.arg}
    /\ store.last = "load" =>
          /\ store.loaded.status = "mapping"
          /\ store.loaded.value \in {store.prev, store.arg}
          /\ store.loaded.value = FileMapping

\* the process died after the temporary file was written and before the rename
C25_Witness ==
    /\ store.last = "crash"
    /\ files.temp_file # <<>> /\ Complete(files.temp_file[1])
    /\ files.sessions_file # <<>>
    /\ FileMapping = store.prev /\ store.prev # store.arg

\* the last step was a load_sessions that met a sessions file it could not read
MetMalformed ==
    /\ store.last = "load"
    /\ store.met # <<>>
    /\ ~Complete(store.met[1])

\* C26: when the sessions file is malformed, load_sessions moves it to the
\* backup named after the current second, returns the empty mapping without
\* raising, and no user has a session in what it returned or in what the next
\* load will return.
C26_MalformedBackedUpEmpty ==
    MetMalformed =>
        /\ store.loaded.status = "mapping"
        /\ store.loaded.value = <<>>
        /\ \A u \in Users : ~HasSession(store.loaded.value, u)
        /\ files.backups[store.at] = store.met
        /\ files.sessions_file = <<>>

\* load_sessions met a file that is no UTF-8 text: the exception left it, and
\* the file is still in place with no backup made
C26_Witness ==
    /\ MetMalformed
    /\ store.met[1].kind = "not_utf8"
    /\ store.loaded.status = "raise"
    /\ files.sessions_file = store.met
    /\ \A t \in 0..MaxTime : files.backups[t] = <<>>

\* user v has the same session record, or none, before and after the step
SameRecord(v) ==
    /\ HasSession(sessions', v) <=> HasSession(sessions, v)
    /\ HasSession(sessions, v) => sessions'[v] = sessions[v]

\* C27: in any order of the sections of different users, the save of a
\* section of user u (activity refresh, rate-limit recording, creation,
\* connection, expiry removal, disconnect) leaves the session record of every
\* other user as it was in the file, so that no completed update of another
\* user is lost.
C27_OtherSessionsUnchanged ==
    [][\A u \in Users :
          (held[u] # <<>> /\ held'[u] = <<>>) =>
              \A v \in Users \ {u} : SameRecord(v)]_vars

\* a user's recorded transaction is still in the file after another user's
\* later creation or connection
C27_Witness ==
    \E u \in Users : \E v \in Users \ {u} :
        /\ held = NoHeld
        /\ HasSession(sessions, u) /\ HasSession(sessions, v)
        /\ sessions[u].recent_transactions # <<>>
        /\ sessions[v].last_activity > sessions[u].last_activity

\* the value is a blob made by _encrypt_data, not a secret phrase
Encrypted(blob) ==
    \E w \in Wallets, p \in Passwords, s \in Salts : blob = EncryptWithSalt(w, p, s)

\* C28: in every state between two updates, the sessions file and the wallet
\* files hold the secret phrase only encrypted, and no user's context holds
\* the plaintext phrase from one message to the next.
C28_PlaintextNeverKept ==
    /\ \A u \in Users : HasSession(sessions, u) => Encrypted(sessions[u].encrypted_mnemonic)
    /\ \A a \in Wallets : wallet_files[a] # <<>> => Encrypted(wallet_files[a][1].encrypted_mnemonic)
    /\ \A u \in Users : user_data[u].mnemonic = 0

\* a user has sent the phrase and not yet the password: the context holds the
\* phrase while the bot waits for the next message
C28_Witness ==
    \E u \in Users :
        /\ user_data[u].state = "connecting_password"
        /\ user_data[u].mnemonic \in Wallets

C30_WrongOrDamagedFails ==
    (/\ vault.phase = "opened"
     /\ (vault.typed # vault.password \/ vault.damage # "none"))
    => /\ ~vault.result[1].ok
       /\ vault.result[1].value = <<>>
       /\ vault.result[1].error = DecryptError

\* a blob with characters added at its end is decrypted with its password:
\* the secret phrase is returned
C30_Witness ==
    /\ vault.phase = "opened"
    /\ vault.damage = "appended"
    /\ vault.typed = vault.password
    /\ vault.result[1].ok
    /\ vault.result[1].value = <<vault.secret>>

\* the last update was a builder call for user u that supplied password
Staged(u) == request.kind = "stage" /\ request.user = u

\* C31: a builder called with the password of the wallet signs and submits
\* with that password in the same call, whatever the kind and the frontend,
\* and nothing is left awaiting a password; called without a password on
\* frontend 'telegram' it signs nothing, and the operation is stored awaiting
\* the password.
C31_SuppliedPasswordSigns ==
    \A u \in Users : Staged(u) =>
        LET call == request.send[1]
            blob == wallet_files[connected_address][1].encrypted_mnemonic
        IN /\ (call.password # NoPassword /\ DecryptOK(blob, call.password)
               /\ (call.frontend = "cli" => call.approve)) =>
                  /\ reply.tag = "Signed"
                  /\ signedNow # {}
                  /\ \A e \in signedNow : e.sig.pw = call.password
                  /\ user_data[u].state # "transaction_password"
           /\ (call.password = NoPassword /\ call.frontend = "telegram") =>
                  /\ reply.tag = "AwaitingApproval"
                  /\ signedNow = {}
                  /\ user_data[u].state = "transaction_password"
                  /\ user_data[u].pending_txn \o user_data[u].pending_txns # <<>>

\* a multi-recipient transfer built with the wallet's password on frontend
\* 'telegram' was not signed: it awaits the password
C31_Witness ==
    \E u \in Users :
        /\ Staged(u)
        /\ request.send[1].kind = "multi_send"
        /\ request.send[1].frontend = "telegram"
        /\ request.send[1].password = "pass1234"
        /\ reply.tag = "AwaitingApproval"
        /\ user_data[u].state = "transaction_password"
        /\ signedNow = {}

\* the step is the connection of user u's phrase
Connects(u) ==
    /\ user_data[u].state = "connecting_password"
    /\ reply'.user = u
    /\ reply'.tag = "WalletConnected"

\* C32: when a phrase is connected that is not the phrase of a wallet A made
\* before, the address B it yields differs from A, and what is stored for A is
\* as before: every session record that holds A, and the wallet file of A.
C32_ConnectLeavesOthers ==
    [][\A u \in Users : Connects(u) =>
          LET B == AddressOf(user_data[u].mnemonic)
          IN /\ sessions'[u].address = B
             /\ \A A \in Wallets \ {B} :
                   /\ wallet_files'[A] = wallet_files[A]
                   /\ \A v \in Users :
                         (HasSession(sessions, v) /\ sessions[v].address = A) =>
                             (HasSession(sessions', v) /\ sessions'[v] = sessions[v])]_vars

\* a user's phrase was connected, nobody else holds a session, and the file
\* of another wallet, made before, is there: the session record that held the
\* other wallet is gone
C32_Witness ==
    \E u \in Users : \E A \in Wallets :
        /\ reply = Reply(u, "WalletConnected")
        /\ DOMAIN sessions = {u}
        /\ sessions[u].address # A
        /\ wallet_files[A] # <<>>
        /\ wallet_files[sessions[u].address] # <<>>

\* C33: failed_attempts is raised, and IncorrectPassword (or the lock-out of
\* too many attempts) answered, only by a transaction password that failed to
\* decrypt the secret; a resume that decrypted it, or that never got to the
\* decryption, leaves the counter alone whatever happens afterwards.
C33_CountsOnlyWrongPasswords ==
    (resume.user # 0 /\ ~resume.wrong) =>
        /\ reply.tag \notin {"IncorrectPassword", "LockedOut"}
        /\ user_data[resume.user].failed_attempts <= resume.failed_attempts

\* a transfer was signed with the right password and handed to the ledger,
\* and the update ended with IncorrectPassword and a counted failure
C33_Witness ==
    /\ resume.user # 0
    /\ resume.decrypted /\ resume.sent /\ ~resume.wrong
    /\ reply.tag = "IncorrectPassword"
    /\ user_data[resume.user].failed_attempts = 1

\* C34: in every state of a user's conversation memory, a payload is pending
\* (pending_txn or pending_txns) exactly when the state is
\* 'transaction_password'.
C34_PendingIffAwaitingPassword ==
    \A u \in Users :
        (user_data[u].pending_txn # <<>> \/ user_data[u].pending_txns # <<>>)
            <=> user_data[u].state = "transaction_password"

\* an NFT creation staged by a captioned upload while a payload group was
\* already awaiting its password: both are pending, and the state is
\* 'transaction_password'
C34_Witness ==
    \E u \in Users :
        /\ user_data[u].state = "transaction_password"
        /\ user_data[u].pending_txn # <<>>
        /\ user_data[u].pending_txns # <<>>
        /\ reply = Reply(u, "AwaitingApproval")

\* C35: whenever a transaction password made a signature, the user has a
\* session record whose last activity is within the session timeout: a
\* payload staged before the session expired is not signed after it expired.
C35_NoSigningAfterExpiry ==
    \A e \in signedNow :
        /\ HasSession(sessions, e.user)
        /\ now - sessions[e.user].last_activity <= SessionTimeout

\* a payload was signed for a user whose last activity is more than the
\* session timeout past
C35_Witness ==
    \E e \in signedNow :
        /\ resume.user = e.user
        /\ resume.decrypted
        /\ HasSession(sessions, e.user)
        /\ now - sessions[e.user].last_activity > SessionTimeout

\* the transfer stagings recorded for user u in the mapping S that lie inside
\* the hour ending at t
RecordedInWindow(S, u, t) ==
    IF HasSession(S, u)
    THEN Cardinality(InWindow(S[u].recent_transactions, t))
    ELSE 0

\* C36: for one user, no operation resets the recorded window: whatever the
\* user does (wallet creation and wallet connection included), a user who has
\* a session after the step has no fewer transfer stagings recorded inside
\* the hour ending then than were recorded inside that hour before the step,
\* so that the limit of 10 stagings an hour is counted over all the sessions
\* of the user.
C36_WindowSurvivesSessions ==
    [][\A u \in Users :
          HasSession(sessions', u) =>
              RecordedInWindow(sessions', u, now') >= RecordedInWindow(sessions, u, now')]_vars

\* a transfer is allowed against an empty window for a user whose second
\* wallet is on file
C36_Witness ==
    /\ rate_check.user # 0 /\ rate_check.allowed
    /\ rate_check.before = <<>>
    /\ wallet_files[AddressOf(MaxWallets)] # <<>>

\* C37: when a transaction password arrives for a staged payload group, the
\* group is submitted only once every member has been signed, each with the
\* key the password decrypts; and when the signing fails (the password does
\* not decrypt the secret), nothing is signed and no submission call is made.
C37_GroupSignedBeforeSubmitted ==
    (Resumed /\ resume.type \in GroupTypes) =>
        LET members == GroupMembers(resume.staged)
            signed == {e.sig.txn : e \in signedNow}
        IN /\ resume.submissions > 0 => members \subseteq signed
           /\ members \ signed # {} => (signedNow = {} /\ ~resume.sent)
           /\ resume.wrong =>
                 /\ resume.submissions = 0
                 /\ signedNow = {}
                 /\ ~resume.sent

C37_Witness ==
    /\ Resumed /\ resume.type = "multi_send" /\ resume.wrong
    /\ Cardinality(GroupMembers(resume.staged)) >= 2
    /\ resume.submissions = 0

\* the step is a wallet creation or a wallet connection of user u that
\* succeeds with password p
Opens(u, p) ==
    \/ HandleWalletCreationPassword(u, p) /\ reply' = Reply(u, "WalletCreated")
    \/ HandleConnectionPassword(u, p) /\ reply' = Reply(u, "WalletConnected")

\* the records of user u in the mappings S and T name the same address and
\* hold the same encrypted secret
SameWallet(S, T, u) ==
    /\ S[u].address = T[u].address
    /\ S[u].encrypted_mnemonic = T[u].encrypted_mnemonic

\* C38: the session record a wallet creation or connection stores holds a
\* secret that the password given there decrypts to the phrase of the record's
\* address; no other step changes the address or the encrypted secret of a
\* record that stays in the store, and validate_session and
\* check_user_rate_limit return every record they keep with its address and
\* its encrypted secret.
C38_RecordOpensItsAddress ==
    [][\A u \in Users :
          /\ \A p \in TypedPasswords :
                Opens(u, p) =>
                    LET rec == sessions'[u]
                    IN /\ DecryptOK(rec.encrypted_mnemonic, p)
                       /\ AddressOf(DecryptData(rec.encrypted_mnemonic, p)) = rec.address
          /\ (/\ HasSession(sessions, u) /\ HasSession(sessions', u)
              /\ \A p \in TypedPasswords : ~Opens(u, p))
                => SameWallet(sessions, sessions', u)
          /\ HasSession(sessions, u) =>
                LET v == ValidateSession(sessions, u, now).sessions
                    r == CheckUserRateLimit(sessions, u, now).sessions
                IN /\ HasSession(v, u) => SameWallet(sessions, v, u)
                   /\ HasSession(r, u) => SameWallet(sessions, r, u)]_vars

\* a user who connected a wallet by its mnemonic, without having created one,
\* has had a transfer pass the validation of the session and the rate check
C38_Witness ==
    \E u \in DOMAIN sessions :
        /\ wallet_files[AddressOf(1)] = <<>>
        /\ sessions[u].address = AddressOf(MaxWallets)
        /\ sessions[u].recent_transactions # <<>>
        /\ rate_check.user = u /\ rate_check.allowed
        /\ DecryptOK(sessions[u].encrypted_mnemonic, "pass1234")
        /\ AddressOf(DecryptData(sessions[u].encrypted_mnemonic, "pass1234"))
              = sessions[u].address

\* the step is user u typing password p where a flow that stores a session
\* waits for one
TypesSessionPassword(u, p) ==
    HandleWalletCreationPassword(u, p) \/ HandleConnectionPassword(u, p)

\* C39: every session record in the store holds a secret that only a password
\* satisfying the strength rule (8 characters or more, a letter and a digit)
\* decrypts, whether wallet creation or wallet connection stored it; and a
\* password that does not satisfy the rule, typed in either flow, stores no
\* session and leaves the flow waiting for another password.
C39_OnlyStrongPasswordsStored ==
    [][\A u \in Users :
          /\ HasSession(sessions', u) =>
                \A p \in Passwords :
                    DecryptOK(sessions'[u].encrypted_mnemonic, p) => StrongPassword(p)
          /\ \A p \in Passwords :
                (TypesSessionPassword(u, p) /\ ~StrongPassword(p)) =>
                    /\ sessions' = sessions
                    /\ user_data'[u].state = user_data[u].state]_vars

\* a session stored by the connection flow holds a secret encrypted under
\* a password of three letters
C39_Witness ==
    \E u \in DOMAIN sessions :
        /\ reply = Reply(u, "WalletConnected")
        /\ DecryptOK(sessions[u].encrypted_mnemonic, "abc")

====
